---------------------------- MODULE Spec2Model ----------------------------
(***************************************************************************)
(* Model of the sailfish-secrets daemon: the request queue                 *)
(* (src/daemon/requestqueue.cpp) and the secrets request processor         *)
(* (src/daemon/SecretsImpl/secretsrequestprocessor.cpp).                   *)
(*                                                                         *)
(* The specifications share the variables:                                 *)
(*   QueueSpec - the request queue: id allocation, dispatch, completion.   *)
(*   Spec      - the request processor with two applications and a         *)
(*               collection on a storage and an encryption plugin.         *)
(*   EncryptedStorageSpec - the same with an encrypted storage plugin.     *)
(*   CreateSpec - creation and deletion of collections, two requests       *)
(*               parked at once, authentication failures.                  *)
(*   StandaloneSpec - standalone secrets with their relock timers.         *)
(*   DispatchSpec - the queue dispatching client, authentication and       *)
(*               unknown requests to the processor; DispatchLiveSpec is    *)
(*               its fair version for the liveness of replies.             *)
(*   ResumeSpec - parked requests resumed in a build that evaluates call   *)
(*               arguments left to right and in one that evaluates them    *)
(*               right to left.                                            *)
(*   RelockSpec - timeout-relock collections and standalone secrets with   *)
(*               their relock timers.                                      *)
(*   CryptoSpec - the queue with the requests of the crypto helpers.       *)
(*   UniformSpec - collections when a plugin directory can hold an         *)
(*               encrypted storage plugin that is no storage plugin.       *)
(*   AccessRelockSpec - access-relock collections and standalone secrets.  *)
(*   PurgeSpec - deletion of timeout-relock collections and standalone     *)
(*               secrets with plugin calls that fail.                      *)
(*   HelperSpec - the crypto helpers with a custom-lock collection that    *)
(*               relocks on a timeout.                                     *)
(*   UpsertSpec - standalone secrets with a custom lock only.              *)
(*   LoadSpec  - plugin loading over the directories of a few plugin files.*)
(*   ReentrantSpec - the dispatch with an authentication plugin that can   *)
(*               complete a flow inside beginAuthentication.               *)
(*   RepeatSpec - the dispatch with an authentication plugin that can      *)
(*               signal the completion of a flow more than once.           *)
(*   NameSpec  - the collection handlers called with the empty name and    *)
(*               with spellings of the reserved name.                      *)
(* All specifications but ResumeSpec model the build that evaluates call   *)
(* arguments left to right.                                                *)
(***************************************************************************)
EXTENDS Integers, Sequences, FiniteSets, TLC

(***************************************************************************)
(* Bounds of the model.                                                    *)
(***************************************************************************)
\* request ids are 0..MaxId and wrap modulo MaxId + 1 (quint64 in the source)
MaxId == 2
\* cap of the count of queued handleRequests events
MaxQueuedEvents == 2
\* cap of the number of requests tracked at a time (DispatchSpec)
MaxTracked == 2
\* crypto request ids are 1..MaxCryptoId
MaxCryptoId == 2
\* plugin files of a plugin directory
MaxFiles == 2

(***************************************************************************)
(* Request queue state (src/daemon/requestqueue.cpp)                       *)
(***************************************************************************)
VARIABLES
    m_requests,            \* QList<RequestData*>: sequence of request records
    requestId,             \* static quint64 requestId of enqueueRequest
    queuedHandleRequests,  \* number of queued handleRequests events (saturating)
    m_cryptoApiHelperRequests, \* QMap: crypto request id -> crypto api call type
    wrapped,               \* history: the id counter has wrapped around to 0
    lastEnqueue,           \* history: outcome of the latest enqueueRequest
    pass                   \* history: what the latest step of the queue did

queueVars == <<m_requests, requestId, queuedHandleRequests, m_cryptoApiHelperRequests,
               wrapped, lastEnqueue, pass>>

RequestPending == "RequestPending"
RequestInProgress == "RequestInProgress"
RequestFinished == "RequestFinished"

\* a step that was no pass of handleRequests: nothing dispatched, no reply,
\* no completion signal emitted to the crypto subsystem
NoPass ==
    [handled |-> FALSE, dispatched |-> <<>>, replies |-> <<>>, yielded |-> FALSE,
     emitted |-> <<>>]

IdModulus == MaxId + 1

\* the ids in use by currently tracked requests
TrackedIds(requests) == {requests[i].requestId : i \in 1..Len(requests)}

\* a counter that counts down (what --nextFreeId would do)
IncIdDown(id) == (id + MaxId) % IdModulus

\* ++nextFreeId on a quint64, with the width reduced to the model's id space
IncId(id) == (id + 1) % IdModulus

\* a scan that never skips ids in use (what a missing in-use check would do)
ScanFreeIdNoCheck(requests, prevId, nextFreeId, found) ==
    [nextFreeId |-> nextFreeId, found |-> FALSE]

\* the scan of enqueueRequest: starting at nextFreeId, advance while the id is
\* used by a tracked request and differs from prevId.  Returns the loop's
\* final (nextFreeId, found).
RECURSIVE ScanFreeId(_, _, _, _)
ScanFreeId(requests, prevId, nextFreeId, found) ==
    IF nextFreeId = prevId
    THEN [nextFreeId |-> nextFreeId, found |-> found]
    ELSE IF nextFreeId \in TrackedIds(requests)
         THEN ScanFreeId(requests, prevId, IncId(nextFreeId), TRUE)
         ELSE [nextFreeId |-> nextFreeId, found |-> FALSE]

\* the RequestData that RequestQueue::handleRequest builds for a request of a
\* client (over its connection) or of the crypto helper
RequestData(remotePid, type, inParams, isSecretsCryptoRequest) ==
    [requestId |-> 0, status |-> RequestPending, type |-> type,
     remotePid |-> remotePid, inParams |-> inParams,
     isSecretsCryptoRequest |-> isSecretsCryptoRequest, cryptoRequestId |-> 0,
     outParams |-> <<>>]

\* the RequestData of a request made as part of the crypto request
\* cryptoRequestId
CryptoRequestData(callerPid, cryptoRequestId, requestType, inParams) ==
    [RequestData(callerPid, requestType, inParams, TRUE)
        EXCEPT !.cryptoRequestId = cryptoRequestId]

\* one more queued handleRequests event
InvokeHandleRequests(queued) ==
    IF queued < MaxQueuedEvents THEN queued + 1 ELSE queued

\* RequestQueue::enqueueRequest, called by RequestQueue::handleRequest, which
\* sets the delayed reply of a client's message when the request is enqueued
EnqueueRequest(request) ==
    LET prevId == requestId
        first  == IncId(requestId)
        scan   == ScanFreeId(m_requests, prevId, first, FALSE)
    IN  /\ requestId' = first
        /\ wrapped' = (wrapped \/ first = 0)
        /\ pass' = NoPass
        /\ IF scan.found
           THEN /\ m_requests' = m_requests
                /\ queuedHandleRequests' = queuedHandleRequests
                /\ lastEnqueue' = [code |-> "SecretsDaemonRequestQueueFullError",
                                   id |-> 0,
                                   inUseBefore |-> TrackedIds(m_requests),
                                   delayedReply |-> FALSE]
           ELSE /\ m_requests' = Append(m_requests,
                                        [request EXCEPT !.requestId = scan.nextFreeId])
                /\ queuedHandleRequests' = InvokeHandleRequests(queuedHandleRequests)
                /\ lastEnqueue' = [code |-> "Succeeded",
                                   id |-> scan.nextFreeId,
                                   inUseBefore |-> TrackedIds(m_requests),
                                   delayedReply |-> ~request.isSecretsCryptoRequest]

\* a requestFinished that finds no request
requestFinishedLost(requests, queued, id, outParams) ==
    [requests |-> requests, queued |-> queued]

\* RequestQueue::requestFinished: the first request with the id becomes
\* Finished and holds the output parameters; an unknown id changes nothing
requestFinished(requests, queued, id, outParams) ==
    IF id \in TrackedIds(requests)
    THEN LET i == CHOOSE j \in 1..Len(requests) :
                      /\ requests[j].requestId = id
                      /\ \A k \in 1..(j - 1) : requests[k].requestId # id
         IN  [requests |-> [requests EXCEPT ![i].status = RequestFinished,
                                            ![i].outParams = outParams],
              queued |-> InvokeHandleRequests(queued)]
    ELSE [requests |-> requests, queued |-> queued]

(***************************************************************************)
(* Request processor (src/daemon/SecretsImpl/secretsrequestprocessor.cpp)  *)
(***************************************************************************)
VARIABLES
    m_storagePlugins,          \* names of the loaded storage plugins
    m_encryptionPlugins,       \* names of the loaded encryption plugins
    m_encryptedStoragePlugins, \* names of the loaded encrypted storage plugins
    m_authenticationPlugins,   \* names of the loaded authentication plugins
    Collections,               \* master table Collections: set of rows
    Secrets,                   \* master table Secrets: set of rows
    storageColls,              \* storage plugin: names of its collections
    storageData,               \* storage plugin: (collection, hashed name) -> cipher
    esColls,                   \* encrypted storage plugin: collection -> [key, locked]
    esData,                    \* encrypted storage plugin: (collection, hashed name) -> [data, key]
    m_collectionAuthenticationKeys,       \* collection name -> key
    m_standaloneSecretAuthenticationKeys, \* hashed secret name -> key
    m_collectionLockTimers,               \* collection names with a relock timer
    m_standaloneSecretLockTimers,         \* secret names with a relock timer
    m_pendingRequests,         \* request id -> parked request
    authFlows,                 \* request ids with an authentication flow under way
    calls,                     \* history: plugin calls, timer starts and nested requestFinished calls of the latest operation
    last,                      \* history: the latest processor operation
    prev                       \* history: the operation before the latest

registryVars == <<m_storagePlugins, m_encryptionPlugins,
                  m_encryptedStoragePlugins, m_authenticationPlugins>>
processorVars == <<Collections, Secrets, storageColls, storageData, esColls, esData,
                   m_collectionAuthenticationKeys, m_standaloneSecretAuthenticationKeys,
                   m_collectionLockTimers, m_standaloneSecretLockTimers,
                   m_pendingRequests, authFlows, calls, last, prev>>
vars == <<queueVars, registryVars, processorVars>>

\* ---- constants of the source ----
DeviceLockKey == "example_device_lock_key"
Standalone == "standalone"
DefaultAuthenticationPluginName == "sysauth"
InAppAuthenticationPluginName == "appauth"
PreventUserInteractionMode == 0
SystemUserInteractionMode == 1
InProcessUserInteractionMode == 2
OwnerOnlyMode == 0
SystemAccessControlMode == 1
DeviceLockKeepUnlocked == 0
CustomLockKeepUnlocked == 8
CustomLockTimoutRelock == 10
CustomLockAccessRelock == 11
\* QByteArray() / QString()
Empty == ""

\* a handler that never takes a request for one that prevents user interaction
InteractionNeverPrevented(userInteractionMode) == FALSE

\* userInteractionMode == SecretManager::PreventUserInteractionMode, the test
\* the handlers make before they begin an authentication
InteractionPrevented(userInteractionMode) == userInteractionMode = PreventUserInteractionMode

\* the case folding of QString::compare(..., Qt::CaseInsensitive) on the
\* names of the model: the spellings of the reserved name fold to it, every
\* other name of the model is lower case already
CaseFold(name) ==
    IF name \in {"Standalone", "STANDALONE", "standalone"} THEN "standalone" ELSE name

\* collectionName.compare(QStringLiteral("standalone"), Qt::CaseInsensitive) == 0
IsReservedCollectionName(collectionName) == CaseFold(collectionName) = CaseFold(Standalone)

\* faults injected into one operation: none, the master table write fails,
\* the plugin operation fails, the plugin operation and the compensating
\* delete fail, is_locked fails, the is_locked after set_encryption_key
\* fails, set_encryption_key fails, the encryption plugin fails,
\* begin_authentication fails.  ("reentrant" is no fault: the authentication
\* completes before begin_authentication returns.)
Faults == {"none", "db", "plugin", "compensate", "isLocked", "isLocked2",
           "setKey", "crypt", "auth"}
PluginFailure == "PluginFailure"

\* generateHashedSecretName: a deterministic function of the concatenation
generateHashedSecretName(collectionName, secretName) ==
    "#" \o collectionName \o secretName

\* QMap insert / remove
MapInsert(map, key, value) == (key :> value) @@ map
MapRemove(map, key) == [k \in (DOMAIN map) \ {key} |-> map[k]]
EmptyMap == [k \in {} |-> Empty]

\* ---- the processor state as one record ----
ProcessorState ==
    [Collections |-> Collections, Secrets |-> Secrets,
     storageColls |-> storageColls, storageData |-> storageData,
     esColls |-> esColls, esData |-> esData,
     m_collectionAuthenticationKeys |-> m_collectionAuthenticationKeys,
     m_standaloneSecretAuthenticationKeys |-> m_standaloneSecretAuthenticationKeys,
     m_collectionLockTimers |-> m_collectionLockTimers,
     m_standaloneSecretLockTimers |-> m_standaloneSecretLockTimers,
     m_pendingRequests |-> m_pendingRequests,
     authFlows |-> authFlows,
     calls |-> <<>>]

SetProcessorState(S) ==
    /\ Collections' = S.Collections
    /\ Secrets' = S.Secrets
    /\ storageColls' = S.storageColls
    /\ storageData' = S.storageData
    /\ esColls' = S.esColls
    /\ esData' = S.esData
    /\ m_collectionAuthenticationKeys' = S.m_collectionAuthenticationKeys
    /\ m_standaloneSecretAuthenticationKeys' = S.m_standaloneSecretAuthenticationKeys
    /\ m_collectionLockTimers' = S.m_collectionLockTimers
    /\ m_standaloneSecretLockTimers' = S.m_standaloneSecretLockTimers
    /\ m_pendingRequests' = S.m_pendingRequests
    /\ authFlows' = S.authFlows
    /\ calls' = S.calls

\* a handler's return: the new state, the result code and the secret returned
Ret(S, code) == [S |-> S, code |-> code, secret |-> Empty]
RetSecret(S, code, secret) == [S |-> S, code |-> code, secret |-> secret]

\* record a plugin call
Call(S, op, collection, arg) ==
    [S EXCEPT !.calls = Append(@, [op |-> op, collection |-> collection, arg |-> arg,
                                   code |-> Empty])]

\* the plugin operation returns r: the record of its call holds the result
Returned(r) ==
    [r EXCEPT !.S = [@ EXCEPT !.calls = [@ EXCEPT ![Len(@)] = [@ EXCEPT !.code = r.code]]]]

(***************************************************************************)
(* Master database: tables as sets of rows.  The schema is the one the     *)
(* specification gives: CollectionName is the primary key of Collections,  *)
(* (CollectionName, SecretName) the primary key of Secrets, and a Secrets  *)
(* row references its Collections row (deleted with it).                   *)
(***************************************************************************)
CollectionRows(S, name) == {r \in S.Collections : r.name = name}
CollectionRow(S, name) == CHOOSE r \in S.Collections : r.name = name
SecretRows(S, collection, hashed) ==
    {r \in S.Secrets : r.collection = collection /\ r.hashed = hashed}
SecretRow(S, collection, hashed) ==
    CHOOSE r \in S.Secrets : r.collection = collection /\ r.hashed = hashed

InsertCollectionRow(S, row) ==
    IF CollectionRows(S, row.name) # {}
    THEN [ok |-> FALSE, S |-> S]
    ELSE [ok |-> TRUE, S |-> [S EXCEPT !.Collections = @ \cup {row}]]

DeleteCollectionRow(S, name) ==
    [S EXCEPT !.Collections = {r \in @ : r.name # name},
              !.Secrets = {r \in @ : r.collection # name}]

\* the insert put off until after the plugin call
InsertSecretRowDeferred(S, row) == [ok |-> TRUE, S |-> S]

InsertSecretRow(S, row) ==
    IF SecretRows(S, row.collection, row.hashed) # {} \/ CollectionRows(S, row.collection) = {}
    THEN [ok |-> FALSE, S |-> S]
    ELSE [ok |-> TRUE, S |-> [S EXCEPT !.Secrets = @ \cup {row}]]

UpdateSecretRow(S, row) ==
    [S EXCEPT !.Secrets =
        {r \in @ : ~(r.collection = row.collection /\ r.hashed = row.hashed)} \cup {row}]

DeleteSecretRow(S, collection, hashed) ==
    [S EXCEPT !.Secrets = {r \in @ : ~(r.collection = collection /\ r.hashed = hashed)}]

StandaloneCollectionRow ==
    [name |-> Standalone, app |-> Standalone, dev |-> 0, sto |-> Standalone,
     enc |-> Standalone, auth |-> Standalone, sem |-> 0, acm |-> 0]

\* The processor state after the daemon has been started again: the
\* in-memory caches, timers and parked requests are gone, the encrypted
\* storage plugin holds no keys, the tables and the plugin storage persist;
\* the constructor inserts the standalone row again.
RestartState(S) ==
    [S EXCEPT !.Collections = InsertCollectionRow(S, StandaloneCollectionRow).S.Collections,
              !.esColls = [c \in DOMAIN @ |-> [@[c] EXCEPT !.locked = TRUE]],
              !.m_collectionAuthenticationKeys = EmptyMap,
              !.m_standaloneSecretAuthenticationKeys = EmptyMap,
              !.m_collectionLockTimers = {},
              !.m_standaloneSecretLockTimers = {},
              !.m_pendingRequests = EmptyMap,
              !.authFlows = {}]

\* m_...Plugins[name]->operation(...) for a name that is not loaded:
\* QMap::operator[] inserts a null pointer and the call through it ends the
\* daemon.  What was committed to the tables and written to the plugin
\* storage persists, the handler does not return and the request is never
\* finished.
Crash(S) == [S |-> RestartState(S), code |-> "Crash", secret |-> Empty]

(***************************************************************************)
(* Plugins.  Their implementations are not part of the sources; they are   *)
(* modelled from the plugin contracts of the specification.  Every plugin  *)
(* operation returns [S, code] and records the call.                       *)
(***************************************************************************)
PluginFails(F) == F \in {"plugin", "compensate"}

\* --- storage plugin ---
Storage_createCollection(S, name, F) ==
    Returned(LET S1 == Call(S, "createCollection", name, Empty)
             IN  IF PluginFails(F) \/ name \in S.storageColls
                 THEN [S |-> S1, code |-> PluginFailure]
                 ELSE [S |-> [S1 EXCEPT !.storageColls = @ \cup {name}], code |-> "Succeeded"])

Storage_removeCollection(S, name, F) ==
    Returned(LET S1 == Call(S, "removeCollection", name, Empty)
             IN  IF PluginFails(F)
                 THEN [S |-> S1, code |-> PluginFailure]
                 ELSE [S |-> [S1 EXCEPT !.storageColls = @ \ {name},
                                        !.storageData = [k \in {d \in DOMAIN @ : d[1] # name} |-> @[k]]],
                       code |-> "Succeeded"])

Storage_setSecret(S, collection, hashed, cipher, F) ==
    Returned(LET S1 == Call(S, "setSecret", collection, hashed)
             IN  IF PluginFails(F) \/ collection \notin (S.storageColls \cup {Standalone})
                 THEN [S |-> S1, code |-> PluginFailure]
                 ELSE [S |-> [S1 EXCEPT !.storageData = MapInsert(@, <<collection, hashed>>, cipher)],
                       code |-> "Succeeded"])

Storage_getSecret(S, collection, hashed, F) ==
    Returned(LET S1 == Call(S, "getSecret", collection, hashed)
             IN  IF PluginFails(F) \/ collection \notin (S.storageColls \cup {Standalone})
                 THEN [S |-> S1, code |-> PluginFailure, data |-> [p |-> Empty, k |-> Empty]]
                 ELSE IF <<collection, hashed>> \notin DOMAIN S.storageData
                      THEN [S |-> S1, code |-> "InvalidSecretError", data |-> [p |-> Empty, k |-> Empty]]
                      ELSE [S |-> S1, code |-> "Succeeded", data |-> S.storageData[<<collection, hashed>>]])

Storage_removeSecret(S, collection, hashed, F) ==
    Returned(LET S1 == Call(S, "removeSecret", collection, hashed)
             IN  IF PluginFails(F) \/ collection \notin (S.storageColls \cup {Standalone})
                 THEN [S |-> S1, code |-> PluginFailure]
                 ELSE [S |-> [S1 EXCEPT !.storageData = MapRemove(@, <<collection, hashed>>)],
                       code |-> "Succeeded"])

\* --- encryption plugin ---
Encryption_encryptSecret(S, plain, key, F) ==
    Returned(LET S1 == Call(S, "encryptSecret", Empty, Empty)
             IN  IF F = "crypt"
                 THEN [S |-> S1, code |-> PluginFailure, data |-> [p |-> Empty, k |-> Empty]]
                 ELSE [S |-> S1, code |-> "Succeeded", data |-> [p |-> plain, k |-> key]])

Encryption_decryptSecret(S, cipher, key, F) ==
    Returned(LET S1 == Call(S, "decryptSecret", Empty, Empty)
             IN  IF F = "crypt" \/ cipher.k # key
                 THEN [S |-> S1, code |-> "SecretsPluginDecryptionError", data |-> Empty]
                 ELSE [S |-> S1, code |-> "Succeeded", data |-> cipher.p])

\* --- encrypted storage plugin ---
\* the notional standalone collection always exists and is never locked
EsUnlocked(S, name) ==
    \/ name = Standalone
    \/ name \in DOMAIN S.esColls /\ ~S.esColls[name].locked

EncryptedStorage_createCollection(S, name, key, F) ==
    Returned(LET S1 == Call(S, "createCollection", name, key)
             IN  IF PluginFails(F) \/ name \in DOMAIN S.esColls
                 THEN [S |-> S1, code |-> PluginFailure]
                 ELSE [S |-> [S1 EXCEPT !.esColls = MapInsert(@, name, [key |-> key, locked |-> FALSE])],
                       code |-> "Succeeded"])

EncryptedStorage_removeCollection(S, name, F) ==
    Returned(LET S1 == Call(S, "removeCollection", name, Empty)
             IN  IF PluginFails(F)
                 THEN [S |-> S1, code |-> PluginFailure]
                 ELSE [S |-> [S1 EXCEPT !.esColls = MapRemove(@, name),
                                        !.esData = [k \in {d \in DOMAIN @ : d[1] # name} |-> @[k]]],
                       code |-> "Succeeded"])

EncryptedStorage_isLocked(S, name, F) ==
    Returned(LET S1 == Call(S, "isLocked", name, Empty)
             IN  IF F = "isLocked" \/ name \notin (DOMAIN S.esColls \cup {Standalone})
                 THEN [S |-> S1, code |-> PluginFailure, locked |-> FALSE]
                 ELSE [S |-> S1, code |-> "Succeeded", locked |-> ~EsUnlocked(S, name)])

\* the right key unlocks the collection; any other key (the empty key
\* included) leaves it locked.  Re-locking with the empty key does not fail.
EncryptedStorage_setEncryptionKey(S, name, key, F) ==
    Returned(LET S1 == Call(S, "setEncryptionKey", name, key)
             IN  IF name \notin DOMAIN S.esColls
                 THEN [S |-> S1, code |-> IF name = Standalone /\ ~(F = "setKey" /\ key # Empty)
                                          THEN "Succeeded" ELSE PluginFailure]
                 ELSE IF F = "setKey" /\ key # Empty
                      THEN [S |-> S1, code |-> PluginFailure]
                      ELSE [S |-> [S1 EXCEPT !.esColls[name].locked = (key # S.esColls[name].key)],
                            code |-> "Succeeded"])

EncryptedStorage_setSecret(S, collection, hashed, secret, F) ==
    Returned(LET S1 == Call(S, "setSecret", collection, hashed)
             IN  IF PluginFails(F) \/ ~EsUnlocked(S, collection)
                 THEN [S |-> S1, code |-> PluginFailure]
                 ELSE [S |-> [S1 EXCEPT !.esData =
                                 MapInsert(@, <<collection, hashed>>, [data |-> secret, key |-> Empty])],
                       code |-> "Succeeded"])

\* set a standalone secret protected by its own key
EncryptedStorage_setSecretWithKey(S, collection, hashed, secret, key, F) ==
    Returned(LET S1 == Call(S, "setSecret", collection, hashed)
             IN  IF PluginFails(F) \/ collection # Standalone
                 THEN [S |-> S1, code |-> PluginFailure]
                 ELSE [S |-> [S1 EXCEPT !.esData =
                                 MapInsert(@, <<collection, hashed>>, [data |-> secret, key |-> key])],
                       code |-> "Succeeded"])

EncryptedStorage_getSecret(S, collection, hashed, F) ==
    Returned(LET S1 == Call(S, "getSecret", collection, hashed)
             IN  IF PluginFails(F) \/ ~EsUnlocked(S, collection)
                 THEN [S |-> S1, code |-> PluginFailure, data |-> Empty]
                 ELSE IF <<collection, hashed>> \notin DOMAIN S.esData
                      THEN [S |-> S1, code |-> "InvalidSecretError", data |-> Empty]
                      ELSE [S |-> S1, code |-> "Succeeded", data |-> S.esData[<<collection, hashed>>].data])

EncryptedStorage_accessSecret(S, collection, hashed, key, F) ==
    Returned(LET S1 == Call(S, "accessSecret", collection, hashed)
             IN  IF PluginFails(F)
                 THEN [S |-> S1, code |-> PluginFailure, data |-> Empty]
                 ELSE IF <<collection, hashed>> \notin DOMAIN S.esData
                      THEN [S |-> S1, code |-> "InvalidSecretError", data |-> Empty]
                      ELSE IF S.esData[<<collection, hashed>>].key # key
                           THEN [S |-> S1, code |-> "SecretsPluginDecryptionError", data |-> Empty]
                           ELSE [S |-> S1, code |-> "Succeeded",
                                 data |-> S.esData[<<collection, hashed>>].data])

EncryptedStorage_removeSecret(S, collection, hashed, F) ==
    Returned(LET S1 == Call(S, "removeSecret", collection, hashed)
             IN  IF PluginFails(F) \/ ~EsUnlocked(S, collection)
                 THEN [S |-> S1, code |-> PluginFailure]
                 ELSE [S |-> [S1 EXCEPT !.esData = MapRemove(@, <<collection, hashed>>)],
                       code |-> "Succeeded"])

\* --- authentication plugin ---
ApplicationSpecificAuthentication == "ApplicationSpecificAuthentication"
SystemDefaultAuthentication == "SystemDefaultAuthentication"
authenticationType(pluginName) ==
    IF pluginName = InAppAuthenticationPluginName
    THEN ApplicationSpecificAuthentication
    ELSE SystemDefaultAuthentication

Authentication_beginAuthentication(S, reqId, F) ==
    Returned(LET S1 == Call(S, "beginAuthentication", Empty, Empty)
             IN  IF F = "auth"
                 THEN [S |-> S1, code |-> PluginFailure]
                 ELSE [S |-> [S1 EXCEPT !.authFlows = @ \cup {reqId}], code |-> "Succeeded"])

(***************************************************************************)
(* Collections                                                             *)
(***************************************************************************)
\* the plugin validation shared by the create handlers
CreatePluginsCheck(storagePluginName, encryptionPluginName) ==
    IF storagePluginName = encryptionPluginName
       /\ storagePluginName \notin m_encryptedStoragePlugins
    THEN "InvalidExtensionPluginError"
    ELSE IF storagePluginName \notin m_storagePlugins
         THEN "InvalidExtensionPluginError"
         ELSE IF encryptionPluginName \notin m_encryptionPlugins
              THEN "InvalidExtensionPluginError"
              ELSE "Succeeded"

\* a create that leaves the master row behind when the plugin failed
CreateCollectionInPluginNoCompensation(S, row, key, F) ==
    IF F = "db"
    THEN Ret(S, "DatabaseQueryError")
    ELSE LET inserted == InsertCollectionRow(S, row)
         IN  IF ~inserted.ok
             THEN Ret(S, "DatabaseQueryError")
             ELSE LET pluginResult ==
                          IF row.sto = row.enc
                          THEN EncryptedStorage_createCollection(inserted.S, row.name, key, F)
                          ELSE LET created == Storage_createCollection(inserted.S, row.name, F)
                               IN  [created EXCEPT !.S.m_collectionAuthenticationKeys =
                                                       MapInsert(@, row.name, key)]
                  IN  Ret(pluginResult.S, pluginResult.code)

\* the second half of createDeviceLockCollection, which
\* createCustomLockCollectionWithAuthenticationKey repeats: insert the master
\* row, create the collection in the plugin (caching the key of a collection
\* on a storage plugin), and delete the row again when the plugin failed
CreateCollectionInPlugin(S, row, key, F) ==
    IF F = "db"
    THEN Ret(S, "DatabaseQueryError")
    ELSE LET inserted == InsertCollectionRow(S, row)
         IN  IF ~inserted.ok
             THEN Ret(S, "DatabaseQueryError")
             ELSE IF row.sto \notin (IF row.sto = row.enc THEN m_encryptedStoragePlugins
                                                          ELSE m_storagePlugins)
             THEN Crash(inserted.S)
             ELSE LET pluginResult ==
                          IF row.sto = row.enc
                          THEN EncryptedStorage_createCollection(inserted.S, row.name, key, F)
                          ELSE LET created == Storage_createCollection(inserted.S, row.name, F)
                               IN  [created EXCEPT !.S.m_collectionAuthenticationKeys =
                                                       MapInsert(@, row.name, key)]
                  IN  IF pluginResult.code # "Succeeded"
                      THEN IF F = "compensate"
                           THEN Ret(pluginResult.S, "DatabaseQueryError")
                           ELSE Ret(DeleteCollectionRow(pluginResult.S, row.name), pluginResult.code)
                      ELSE Ret(pluginResult.S, pluginResult.code)

\* RequestProcessor::createDeviceLockCollection
createDeviceLockCollection(S, callerApplicationId, collectionName, storagePluginName, encryptionPluginName, unlockSemantic, accessControlMode, F) ==
    IF IsReservedCollectionName(collectionName)
    THEN Ret(S, "InvalidCollectionError")
    ELSE IF CreatePluginsCheck(storagePluginName, encryptionPluginName) # "Succeeded"
    THEN Ret(S, CreatePluginsCheck(storagePluginName, encryptionPluginName))
    ELSE IF CollectionRows(S, collectionName) # {}
    THEN Ret(S, "CollectionAlreadyExistsError")
    ELSE CreateCollectionInPlugin(S,
             [name |-> collectionName, app |-> callerApplicationId, dev |-> 1,
              sto |-> storagePluginName, enc |-> encryptionPluginName,
              auth |-> DefaultAuthenticationPluginName,
              sem |-> unlockSemantic, acm |-> accessControlMode],
             DeviceLockKey, F)

\* the request is parked in m_pendingRequests
Park(S, reqId, callerPid, requestType, parameters) ==
    [S EXCEPT !.m_pendingRequests =
        MapInsert(@, reqId, [callerPid |-> callerPid, requestType |-> requestType,
                             parameters |-> parameters])]

\* a create that begins the authentication and parks the request before it
\* looks for a collection of the name
createCustomLockCollectionParksFirst(S, callerPid, reqId, collectionName, storagePluginName, encryptionPluginName, authenticationPluginName, unlockSemantic, accessControlMode, userInteractionMode, uiServiceAddress, F) ==
    IF IsReservedCollectionName(collectionName)
    THEN Ret(S, "InvalidCollectionError")
    ELSE IF CreatePluginsCheck(storagePluginName, encryptionPluginName) # "Succeeded"
    THEN Ret(S, CreatePluginsCheck(storagePluginName, encryptionPluginName))
    ELSE IF authenticationPluginName \notin m_authenticationPlugins
    THEN Ret(S, "InvalidExtensionPluginError")
    ELSE IF authenticationType(authenticationPluginName) = ApplicationSpecificAuthentication
            /\ (userInteractionMode # InProcessUserInteractionMode \/ uiServiceAddress = Empty)
    THEN Ret(S, "OperationRequiresInProcessUserInteraction")
    ELSE IF InteractionPrevented(userInteractionMode)
    THEN Ret(S, "OperationRequiresUserInteraction")
    ELSE LET authenticationResult == Authentication_beginAuthentication(S, reqId, F)
             parked == Park(authenticationResult.S, reqId, callerPid,
                            "CreateCustomLockCollectionRequest",
                            <<collectionName, storagePluginName, encryptionPluginName,
                              authenticationPluginName, unlockSemantic, 0,
                              accessControlMode, userInteractionMode, uiServiceAddress>>)
         IN  IF authenticationResult.code # "Succeeded"
             THEN Ret(authenticationResult.S, authenticationResult.code)
             ELSE IF CollectionRows(S, collectionName) # {}
             THEN Ret(parked, "CollectionAlreadyExistsError")
             ELSE Ret(parked, "Pending")

\* RequestProcessor::createCustomLockCollection
createCustomLockCollection(S, callerPid, reqId, collectionName, storagePluginName, encryptionPluginName, authenticationPluginName, unlockSemantic, accessControlMode, userInteractionMode, uiServiceAddress, F) ==
    IF IsReservedCollectionName(collectionName)
    THEN Ret(S, "InvalidCollectionError")
    ELSE IF CreatePluginsCheck(storagePluginName, encryptionPluginName) # "Succeeded"
    THEN Ret(S, CreatePluginsCheck(storagePluginName, encryptionPluginName))
    ELSE IF authenticationPluginName \notin m_authenticationPlugins
    THEN Ret(S, "InvalidExtensionPluginError")
    ELSE IF authenticationType(authenticationPluginName) = ApplicationSpecificAuthentication
            /\ (userInteractionMode # InProcessUserInteractionMode \/ uiServiceAddress = Empty)
    THEN Ret(S, "OperationRequiresInProcessUserInteraction")
    ELSE IF InteractionPrevented(userInteractionMode)
    THEN Ret(S, "OperationRequiresUserInteraction")
    ELSE IF CollectionRows(S, collectionName) # {}
    THEN Ret(S, "CollectionAlreadyExistsError")
    ELSE LET authenticationResult == Authentication_beginAuthentication(S, reqId, F)
         IN  IF authenticationResult.code # "Succeeded"
             THEN Ret(authenticationResult.S, authenticationResult.code)
             ELSE Ret(Park(authenticationResult.S, reqId, callerPid,
                           "CreateCustomLockCollectionRequest",
                           <<collectionName, storagePluginName, encryptionPluginName,
                             authenticationPluginName, unlockSemantic, 0,
                             accessControlMode, userInteractionMode, uiServiceAddress>>),
                      "Pending")

\* a continuation that does not look for the collection again
createCustomLockCollectionWithAuthenticationKeyNoRecheck(S, callerPid, collectionName, storagePluginName, encryptionPluginName, authenticationPluginName, unlockSemantic, accessControlMode, authenticationKey, F) ==
    CreateCollectionInPlugin(S,
        [name |-> collectionName, app |-> callerPid, dev |-> 0,
         sto |-> storagePluginName, enc |-> encryptionPluginName,
         auth |-> authenticationPluginName,
         sem |-> unlockSemantic, acm |-> accessControlMode],
        authenticationKey, F)

\* RequestProcessor::createCustomLockCollectionWithAuthenticationKey
createCustomLockCollectionWithAuthenticationKey(S, callerPid, collectionName, storagePluginName, encryptionPluginName, authenticationPluginName, unlockSemantic, accessControlMode, authenticationKey, F) ==
    IF CollectionRows(S, collectionName) # {}
    THEN Ret(S, "CollectionAlreadyExistsError")
    ELSE CreateCollectionInPlugin(S,
             [name |-> collectionName, app |-> callerPid, dev |-> 0,
              sto |-> storagePluginName, enc |-> encryptionPluginName,
              auth |-> authenticationPluginName,
              sem |-> unlockSemantic, acm |-> accessControlMode],
             authenticationKey, F)

\* RequestProcessor::deleteCollection
deleteCollection(S, callerPid, collectionName, F) ==
    IF IsReservedCollectionName(collectionName) \/ collectionName = Empty
    THEN Ret(S, "InvalidCollectionError")
    ELSE IF CollectionRows(S, collectionName) = {}
    THEN Ret(S, "Succeeded")
    ELSE LET row == CollectionRow(S, collectionName)
         IN  IF row.sto = row.enc /\ row.sto \notin m_encryptedStoragePlugins
             THEN Ret(S, "InvalidExtensionPluginError")
             ELSE IF row.sto = Empty \/ row.sto \notin m_storagePlugins
             THEN Ret(S, "InvalidExtensionPluginError")
             ELSE LET pluginResult ==
                          IF row.sto = row.enc
                          THEN EncryptedStorage_removeCollection(S, collectionName, F)
                          ELSE Storage_removeCollection(S, collectionName, F)
                      S1 == [pluginResult.S EXCEPT
                                !.m_collectionAuthenticationKeys = MapRemove(@, collectionName),
                                !.m_collectionLockTimers = @ \ {collectionName}]
                  IN  IF pluginResult.code # "Succeeded"
                      THEN Ret(pluginResult.S, pluginResult.code)
                      ELSE IF F = "db"
                           THEN Ret(S1, "DatabaseQueryError")
                           ELSE Ret(DeleteCollectionRow(S1, collectionName), "Succeeded")

(***************************************************************************)
(* Collection secrets                                                      *)
(***************************************************************************)
\* the plugin validation of the secret handlers
SecretPluginsCheck(storagePluginName, encryptionPluginName) ==
    IF storagePluginName = encryptionPluginName
       /\ storagePluginName \notin m_encryptedStoragePlugins
    THEN "InvalidExtensionPluginError"
    ELSE IF storagePluginName # encryptionPluginName
            /\ (storagePluginName = Empty \/ storagePluginName \notin m_storagePlugins)
         THEN "InvalidExtensionPluginError"
         ELSE IF storagePluginName # encryptionPluginName
                 /\ (encryptionPluginName = Empty
                     \/ encryptionPluginName \notin m_encryptionPlugins)
              THEN "InvalidExtensionPluginError"
              ELSE "Succeeded"

\* The unlock sequence of the continuations on an encrypted storage
\* collection: is_locked; if locked set_encryption_key(key) and is_locked
\* again; if still locked re-lock with the empty key.
\* stage: "unlocked" (go on), "isLockedFailed" (first is_locked failed),
\* "returned" (the handler returns code after re-locking)
UnlockEncryptedStorage(S, collectionName, authenticationKey, F) ==
    LET first == EncryptedStorage_isLocked(S, collectionName, F)
    IN  IF first.code # "Succeeded"
        THEN [S |-> first.S, code |-> first.code, stage |-> "isLockedFailed"]
        ELSE IF ~first.locked
        THEN [S |-> first.S, code |-> "Succeeded", stage |-> "unlocked"]
        ELSE LET keyed == EncryptedStorage_setEncryptionKey(first.S, collectionName,
                                                            authenticationKey, F)
                 second == EncryptedStorage_isLocked(keyed.S, collectionName,
                               IF F = "isLocked2" THEN "isLocked" ELSE F)
             IN  IF keyed.code # "Succeeded"
                 THEN [S |-> EncryptedStorage_setEncryptionKey(keyed.S, collectionName,
                                                              Empty, F).S,
                       code |-> "SecretsPluginDecryptionError", stage |-> "returned"]
                 ELSE IF second.code # "Succeeded"
                 THEN [S |-> EncryptedStorage_setEncryptionKey(second.S, collectionName,
                                                              Empty, F).S,
                       code |-> "SecretsPluginDecryptionError", stage |-> "returned"]
                 ELSE IF second.locked
                 THEN [S |-> EncryptedStorage_setEncryptionKey(second.S, collectionName,
                                                              Empty, F).S,
                       code |-> "IncorrectAuthenticationKeyError", stage |-> "returned"]
                 ELSE [S |-> second.S, code |-> "Succeeded", stage |-> "unlocked"]

\* m_collectionAuthenticationKeys.insert when the collection has no entry
CacheKeyIfMissing(S, collectionName, authenticationKey) ==
    IF collectionName \in DOMAIN S.m_collectionAuthenticationKeys
    THEN S
    ELSE [S EXCEPT !.m_collectionAuthenticationKeys =
                       MapInsert(@, collectionName, authenticationKey)]

\* RequestProcessor::setCollectionSecretWithAuthenticationKey
setCollectionSecretWithAuthenticationKey(S, collectionName, secretName, secret, collectionUsesDeviceLockKey, collectionApplicationId, collectionStoragePluginName, collectionEncryptionPluginName, collectionAuthenticationPluginName, collectionUnlockSemantic, collectionAccessControlMode, authenticationKey, F) ==
    LET hashedSecretName == generateHashedSecretName(collectionName, secretName)
        secretAlreadyExists == SecretRows(S, collectionName, hashedSecretName) # {}
        row == [collection |-> collectionName, hashed |-> hashedSecretName,
                app |-> collectionApplicationId, dev |-> collectionUsesDeviceLockKey,
                sto |-> collectionStoragePluginName, enc |-> collectionEncryptionPluginName,
                auth |-> collectionAuthenticationPluginName,
                sem |-> collectionUnlockSemantic, acm |-> collectionAccessControlMode]
        inserted == IF secretAlreadyExists THEN [ok |-> TRUE, S |-> S]
                    ELSE IF F = "db" THEN [ok |-> FALSE, S |-> S]
                    ELSE InsertSecretRow(S, row)
    IN  IF ~inserted.ok
        THEN Ret(S, "DatabaseQueryError")
        ELSE IF collectionStoragePluginName = collectionEncryptionPluginName
                /\ collectionStoragePluginName \notin m_encryptedStoragePlugins
        THEN Crash(inserted.S)
        ELSE IF collectionStoragePluginName # collectionEncryptionPluginName
                /\ collectionEncryptionPluginName \notin m_encryptionPlugins
        THEN Crash(inserted.S)
        ELSE LET unlock == UnlockEncryptedStorage(inserted.S, collectionName,
                                                  authenticationKey, F)
                 cached == CacheKeyIfMissing(inserted.S, collectionName, authenticationKey)
                 encrypted == Encryption_encryptSecret(cached, secret,
                                  cached.m_collectionAuthenticationKeys[collectionName], F)
                 pluginResult ==
                     IF collectionStoragePluginName = collectionEncryptionPluginName
                     THEN IF unlock.stage = "unlocked"
                          THEN EncryptedStorage_setSecret(unlock.S, collectionName,
                                                          hashedSecretName, secret, F)
                          ELSE [S |-> unlock.S, code |-> unlock.code]
                     ELSE IF encrypted.code = "Succeeded"
                          THEN Storage_setSecret(encrypted.S, collectionName,
                                                 hashedSecretName, encrypted.data, F)
                          ELSE [S |-> encrypted.S, code |-> encrypted.code]
             IN  IF collectionStoragePluginName = collectionEncryptionPluginName
                    /\ unlock.stage = "returned"
                 THEN Ret(pluginResult.S, pluginResult.code)
                 ELSE IF collectionStoragePluginName # collectionEncryptionPluginName
                         /\ encrypted.code = "Succeeded"
                         /\ collectionStoragePluginName \notin m_storagePlugins
                 THEN Crash(encrypted.S)
                 ELSE IF pluginResult.code # "Succeeded" /\ ~secretAlreadyExists
                 THEN IF F = "compensate"
                      THEN Ret(pluginResult.S, "DatabaseQueryError")
                      ELSE Ret(DeleteSecretRow(pluginResult.S, collectionName,
                                               hashedSecretName), pluginResult.code)
                 ELSE Ret(pluginResult.S, pluginResult.code)

\* RequestProcessor::setCollectionSecret
setCollectionSecret(S, callerPid, reqId, collectionName, secretName, secret, userInteractionMode, uiServiceAddress, F) ==
    IF secretName = Empty
    THEN Ret(S, "InvalidSecretError")
    ELSE IF collectionName = Empty \/ IsReservedCollectionName(collectionName)
    THEN Ret(S, "InvalidCollectionError")
    ELSE IF CollectionRows(S, collectionName) = {}
    THEN Ret(S, "InvalidCollectionError")
    ELSE
    LET c == CollectionRow(S, collectionName)
        continue(S1, key) ==
            setCollectionSecretWithAuthenticationKey(S1, collectionName, secretName,
                secret, c.dev, c.app, c.sto, c.enc, c.auth, c.sem, c.acm, key, F)
        park(S1) ==
            IF c.dev = 1
            THEN Ret(S1, "CollectionIsLockedError")
            ELSE IF InteractionPrevented(userInteractionMode)
            THEN Ret(S1, "OperationRequiresUserInteraction")
            ELSE LET authenticationResult == Authentication_beginAuthentication(S1, reqId, F)
                 IN  IF authenticationResult.code # "Succeeded"
                     THEN Ret(authenticationResult.S, authenticationResult.code)
                     ELSE Ret(Park(authenticationResult.S, reqId, callerPid,
                                   "SetCollectionSecretRequest",
                                   <<collectionName, secretName, secret, userInteractionMode,
                                     uiServiceAddress, c.dev, c.app, c.sto, c.enc, c.auth,
                                     c.sem, 0, c.acm>>),
                              "Pending")
        locked == EncryptedStorage_isLocked(S, collectionName, F)
    IN  IF c.acm # OwnerOnlyMode
        THEN Ret(S, "OperationNotSupportedError")
        ELSE IF c.app # callerPid
        THEN Ret(S, "PermissionsError")
        ELSE IF SecretPluginsCheck(c.sto, c.enc) # "Succeeded"
        THEN Ret(S, SecretPluginsCheck(c.sto, c.enc))
        ELSE IF c.sto = c.enc
        THEN IF locked.code # "Succeeded"
             THEN Ret(locked.S, locked.code)
             ELSE IF ~locked.locked
                  THEN continue(locked.S, Empty)
                  ELSE park(locked.S)
        ELSE IF collectionName \in DOMAIN S.m_collectionAuthenticationKeys
             THEN continue(S, S.m_collectionAuthenticationKeys[collectionName])
             ELSE park(S)

\* new QTimer, setSingleShot, start: the history of the calls records the
\* start of a relock timer
StartTimer(S, collectionName, secretName) ==
    Call(S, "QTimer::start", collectionName, secretName)

\* a relock timer is created and started for the collection whether or not
\* the table holds one
armCollectionLockTimerAlways(S, collectionName) ==
    [StartTimer(S, collectionName, Empty) EXCEPT
        !.m_collectionLockTimers = @ \cup {collectionName}]

\* if (!m_collectionLockTimers.contains(collectionName)): the relock timer
\* is created, started and filed under the name of the collection
armCollectionLockTimer(S, collectionName) ==
    IF collectionName \in S.m_collectionLockTimers
    THEN S
    ELSE [StartTimer(S, collectionName, Empty) EXCEPT
             !.m_collectionLockTimers = @ \cup {collectionName}]

\* if (!m_standaloneSecretLockTimers.contains(secretName)): the relock timer
\* is created, started and filed under the name of the secret
armStandaloneSecretLockTimer(S, secretName) ==
    IF secretName \in S.m_standaloneSecretLockTimers
    THEN S
    ELSE [StartTimer(S, Standalone, secretName) EXCEPT
             !.m_standaloneSecretLockTimers = @ \cup {secretName}]

\* RequestProcessor::getCollectionSecretWithAuthenticationKey
getCollectionSecretWithAuthenticationKey(S, collectionName, secretName, storagePluginName, encryptionPluginName, collectionUnlockSemantic, authenticationKey, F) ==
    LET hashedSecretName == generateHashedSecretName(collectionName, secretName)
        S0 == IF collectionUnlockSemantic = CustomLockTimoutRelock
              THEN armCollectionLockTimer(S, collectionName)
              ELSE S
        unlock == UnlockEncryptedStorage(S0, collectionName, authenticationKey, F)
        esRead == EncryptedStorage_getSecret(unlock.S, collectionName, hashedSecretName, F)
        cached == CacheKeyIfMissing(S0, collectionName, authenticationKey)
        encrypted == Storage_getSecret(cached, collectionName, hashedSecretName, F)
        decrypted == Encryption_decryptSecret(encrypted.S, encrypted.data,
                         cached.m_collectionAuthenticationKeys[collectionName], F)
    IN  IF storagePluginName = encryptionPluginName
        THEN IF storagePluginName \notin m_encryptedStoragePlugins
             THEN Crash(S0)
             ELSE IF unlock.stage # "unlocked"
             THEN Ret(unlock.S, unlock.code)
             ELSE RetSecret(esRead.S, esRead.code, esRead.data)
        ELSE IF storagePluginName \notin m_storagePlugins
             THEN Crash(cached)
             ELSE IF encrypted.code # "Succeeded"
             THEN Ret(encrypted.S, encrypted.code)
             ELSE IF encryptionPluginName \notin m_encryptionPlugins
             THEN Crash(encrypted.S)
             ELSE RetSecret(decrypted.S, decrypted.code, decrypted.data)

\* RequestProcessor::getCollectionSecret
getCollectionSecret(S, callerPid, reqId, collectionName, secretName, userInteractionMode, uiServiceAddress, F) ==
    IF secretName = Empty
    THEN Ret(S, "InvalidSecretError")
    ELSE IF collectionName = Empty \/ IsReservedCollectionName(collectionName)
    THEN Ret(S, "InvalidCollectionError")
    ELSE IF CollectionRows(S, collectionName) = {}
    THEN Ret(S, "InvalidCollectionError")
    ELSE
    LET c == CollectionRow(S, collectionName)
        continue(S1, key) ==
            getCollectionSecretWithAuthenticationKey(S1, collectionName, secretName,
                c.sto, c.enc, c.sem, key, F)
        park(S1) ==
            IF c.dev = 1
            THEN Ret(S1, "CollectionIsLockedError")
            ELSE IF InteractionPrevented(userInteractionMode)
            THEN Ret(S1, "OperationRequiresUserInteraction")
            ELSE LET authenticationResult == Authentication_beginAuthentication(S1, reqId, F)
                 IN  IF authenticationResult.code # "Succeeded"
                     THEN Ret(authenticationResult.S, authenticationResult.code)
                     ELSE Ret(Park(authenticationResult.S, reqId, callerPid,
                                   "GetCollectionSecretRequest",
                                   <<collectionName, secretName, userInteractionMode,
                                     uiServiceAddress, c.sto, c.enc, c.sem, 0>>),
                              "Pending")
        locked == EncryptedStorage_isLocked(S, collectionName, F)
    IN  IF SecretPluginsCheck(c.sto, c.enc) # "Succeeded"
        THEN Ret(S, SecretPluginsCheck(c.sto, c.enc))
        ELSE IF c.acm # OwnerOnlyMode
        THEN Ret(S, "OperationNotSupportedError")
        ELSE IF c.app # callerPid
        THEN Ret(S, "PermissionsError")
        ELSE IF c.auth \notin m_authenticationPlugins
        THEN Ret(S, "InvalidExtensionPluginError")
        ELSE IF authenticationType(c.auth) = ApplicationSpecificAuthentication
                /\ (userInteractionMode # InProcessUserInteractionMode
                    \/ uiServiceAddress = Empty)
        THEN Ret(S, "OperationRequiresInProcessUserInteraction")
        ELSE IF c.sto = c.enc
        THEN IF locked.code # "Succeeded"
             THEN Ret(locked.S, locked.code)
             ELSE IF locked.locked
                  THEN park(locked.S)
                  ELSE continue(locked.S, Empty)
        ELSE IF collectionName \notin DOMAIN S.m_collectionAuthenticationKeys
             THEN park(S)
             ELSE continue(S, S.m_collectionAuthenticationKeys[collectionName])

\* RequestProcessor::deleteCollectionSecretWithAuthenticationKey
deleteCollectionSecretWithAuthenticationKey(S, callerPid, collectionName, secretName, authenticationKey, F) ==
    IF CollectionRows(S, collectionName) = {}
    THEN Ret(S, "InvalidCollectionError")
    ELSE
    LET c == CollectionRow(S, collectionName)
        hashedSecretName == generateHashedSecretName(collectionName, secretName)
        unlock == UnlockEncryptedStorage(S, collectionName, authenticationKey, F)
        esRemoved == EncryptedStorage_removeSecret(unlock.S, collectionName,
                                                   hashedSecretName, F)
        cached == CacheKeyIfMissing(S, collectionName, authenticationKey)
        removed == Storage_removeSecret(cached, collectionName, hashedSecretName, F)
        pluginResult == IF c.sto = c.enc THEN esRemoved ELSE removed
    IN  IF c.dev = 1 /\ authenticationKey # DeviceLockKey
        THEN Ret(S, "IncorrectAuthenticationKeyError")
        ELSE IF c.acm # OwnerOnlyMode
        THEN Ret(S, "OperationNotSupportedError")
        ELSE IF c.app # callerPid
        THEN Ret(S, "PermissionsError")
        ELSE IF c.sto \notin (IF c.sto = c.enc THEN m_encryptedStoragePlugins
                                               ELSE m_storagePlugins)
        THEN Crash(S)
        ELSE IF c.sto = c.enc /\ unlock.stage # "unlocked"
        THEN Ret(unlock.S, unlock.code)
        ELSE IF pluginResult.code # "Succeeded"
        THEN Ret(pluginResult.S, pluginResult.code)
        ELSE IF F = "db"
        THEN Ret(pluginResult.S, "DatabaseQueryError")
        ELSE Ret(DeleteSecretRow(pluginResult.S, collectionName, hashedSecretName),
                 pluginResult.code)

\* RequestProcessor::deleteCollectionSecret
deleteCollectionSecret(S, callerPid, reqId, collectionName, secretName, userInteractionMode, uiServiceAddress, F) ==
    IF secretName = Empty
    THEN Ret(S, "InvalidSecretError")
    ELSE IF collectionName = Empty \/ IsReservedCollectionName(collectionName)
    THEN Ret(S, "InvalidCollectionError")
    ELSE IF CollectionRows(S, collectionName) = {}
    THEN Ret(S, "InvalidCollectionError")
    ELSE
    LET c == CollectionRow(S, collectionName)
        continue(S1, key) ==
            deleteCollectionSecretWithAuthenticationKey(S1, callerPid, collectionName,
                                                        secretName, key, F)
        park(S1) ==
            IF c.dev = 1
            THEN Ret(S1, "CollectionIsLockedError")
            ELSE IF InteractionPrevented(userInteractionMode)
            THEN Ret(S1, "OperationRequiresUserInteraction")
            ELSE LET authenticationResult == Authentication_beginAuthentication(S1, reqId, F)
                 IN  IF authenticationResult.code # "Succeeded"
                     THEN Ret(authenticationResult.S, authenticationResult.code)
                     ELSE Ret(Park(authenticationResult.S, reqId, callerPid,
                                   "DeleteCollectionSecretRequest",
                                   <<collectionName, secretName, userInteractionMode,
                                     uiServiceAddress>>),
                              "Pending")
        locked == EncryptedStorage_isLocked(S, collectionName, F)
    IN  IF c.acm # OwnerOnlyMode
        THEN Ret(S, "OperationNotSupportedError")
        ELSE IF c.app # callerPid
        THEN Ret(S, "PermissionsError")
        ELSE IF SecretPluginsCheck(c.sto, c.enc) # "Succeeded"
        THEN Ret(S, SecretPluginsCheck(c.sto, c.enc))
        ELSE IF c.sto = c.enc
        THEN IF locked.code # "Succeeded"
             THEN Ret(locked.S, locked.code)
             ELSE IF locked.locked
                  THEN park(locked.S)
                  ELSE continue(locked.S, Empty)
        ELSE IF collectionName \notin DOMAIN S.m_collectionAuthenticationKeys
             THEN park(S)
             ELSE continue(S, S.m_collectionAuthenticationKeys[collectionName])

(***************************************************************************)
(* Standalone secrets                                                      *)
(***************************************************************************)
\* the plugin validation of the standalone handlers
StandalonePluginsCheck(storagePluginName, encryptionPluginName) ==
    IF storagePluginName = encryptionPluginName
       /\ storagePluginName \notin m_encryptedStoragePlugins
    THEN "InvalidExtensionPluginError"
    ELSE IF storagePluginName # encryptionPluginName
            /\ storagePluginName \notin m_storagePlugins
         THEN "InvalidExtensionPluginError"
         ELSE IF storagePluginName # encryptionPluginName
                 /\ encryptionPluginName \notin m_encryptionPlugins
              THEN "InvalidExtensionPluginError"
              ELSE "Succeeded"

\* update or insert the master row of a standalone secret, write the secret
\* through the plugin with the key, delete a newly inserted row again when
\* the plugin failed
WriteStandaloneSecret(S, row, secret, key, F) ==
    LET found == SecretRows(S, Standalone, row.hashed) # {}
        written == IF F = "db" THEN [ok |-> FALSE, S |-> S]
                   ELSE IF found THEN [ok |-> TRUE, S |-> UpdateSecretRow(S, row)]
                   ELSE InsertSecretRow(S, row)
        encrypted == Encryption_encryptSecret(written.S, secret, key, F)
        stored == Storage_setSecret(encrypted.S, Standalone, row.hashed, encrypted.data, F)
        pluginResult ==
            IF row.sto = row.enc
            THEN EncryptedStorage_setSecretWithKey(written.S, Standalone, row.hashed,
                                                   secret, key, F)
            ELSE IF encrypted.code # "Succeeded"
                 THEN [S |-> encrypted.S, code |-> encrypted.code]
                 ELSE IF stored.code # "Succeeded"
                      THEN stored
                      ELSE [stored EXCEPT !.S.m_standaloneSecretAuthenticationKeys =
                                              MapInsert(@, row.hashed, key)]
    IN  IF ~written.ok
        THEN Ret(S, "DatabaseQueryError")
        ELSE IF row.sto = row.enc /\ row.sto \notin m_encryptedStoragePlugins
        THEN Crash(written.S)
        ELSE IF row.sto # row.enc /\ row.enc \notin m_encryptionPlugins
        THEN Crash(written.S)
        ELSE IF row.sto # row.enc /\ encrypted.code = "Succeeded"
                /\ row.sto \notin m_storagePlugins
        THEN Crash(encrypted.S)
        ELSE IF pluginResult.code # "Succeeded" /\ ~found
        THEN IF F = "compensate"
             THEN Ret(pluginResult.S, "DatabaseQueryError")
             ELSE Ret(DeleteSecretRow(pluginResult.S, Standalone, row.hashed),
                      pluginResult.code)
        ELSE Ret(pluginResult.S, pluginResult.code)

\* the checks of the standalone set handlers against an existing row
StandaloneRowCheck(S, callerPid, hashedSecretName, storagePluginName, usesDeviceLockKey) ==
    IF SecretRows(S, Standalone, hashedSecretName) = {}
    THEN "Succeeded"
    ELSE LET r == SecretRow(S, Standalone, hashedSecretName)
         IN  IF r.acm # OwnerOnlyMode THEN "OperationNotSupportedError"
             ELSE IF r.app # callerPid THEN "PermissionsError"
             ELSE IF r.dev # usesDeviceLockKey THEN "OperationNotSupportedError"
             ELSE IF r.sto # storagePluginName THEN "OperationNotSupportedError"
             ELSE "Succeeded"

\* RequestProcessor::setStandaloneDeviceLockSecret
setStandaloneDeviceLockSecret(S, callerPid, storagePluginName, encryptionPluginName, secretName, secret, unlockSemantic, accessControlMode, F) ==
    LET hashedSecretName == generateHashedSecretName(Standalone, secretName)
    IN  IF secretName = Empty
        THEN Ret(S, "InvalidSecretError")
        ELSE IF StandalonePluginsCheck(storagePluginName, encryptionPluginName) # "Succeeded"
        THEN Ret(S, StandalonePluginsCheck(storagePluginName, encryptionPluginName))
        ELSE IF StandaloneRowCheck(S, callerPid, hashedSecretName, storagePluginName, 1)
                    # "Succeeded"
        THEN Ret(S, StandaloneRowCheck(S, callerPid, hashedSecretName, storagePluginName, 1))
        ELSE WriteStandaloneSecret(S,
                 [collection |-> Standalone, hashed |-> hashedSecretName,
                  app |-> callerPid, dev |-> 1,
                  sto |-> storagePluginName, enc |-> encryptionPluginName,
                  auth |-> DefaultAuthenticationPluginName,
                  sem |-> unlockSemantic, acm |-> accessControlMode],
                 secret, DeviceLockKey, F)

\* RequestProcessor::setStandaloneCustomLockSecret
setStandaloneCustomLockSecret(S, callerPid, reqId, storagePluginName, encryptionPluginName, authenticationPluginName, secretName, secret, unlockSemantic, accessControlMode, userInteractionMode, uiServiceAddress, F) ==
    LET hashedSecretName == generateHashedSecretName(Standalone, secretName)
        authenticationResult == Authentication_beginAuthentication(S, reqId, F)
    IN  IF secretName = Empty
        THEN Ret(S, "InvalidSecretError")
        ELSE IF StandalonePluginsCheck(storagePluginName, encryptionPluginName) # "Succeeded"
        THEN Ret(S, StandalonePluginsCheck(storagePluginName, encryptionPluginName))
        ELSE IF StandaloneRowCheck(S, callerPid, hashedSecretName, storagePluginName, 0)
                    # "Succeeded"
        THEN Ret(S, StandaloneRowCheck(S, callerPid, hashedSecretName, storagePluginName, 0))
        ELSE IF authenticationType(authenticationPluginName) = ApplicationSpecificAuthentication
                /\ (userInteractionMode # InProcessUserInteractionMode
                    \/ uiServiceAddress = Empty)
        THEN Ret(S, "OperationRequiresInProcessUserInteraction")
        ELSE IF InteractionPrevented(userInteractionMode)
        THEN Ret(S, "OperationRequiresUserInteraction")
        ELSE IF authenticationResult.code # "Succeeded"
        THEN Ret(authenticationResult.S, authenticationResult.code)
        ELSE Ret(Park(authenticationResult.S, reqId, callerPid,
                      "SetStandaloneCustomLockSecretRequest",
                      <<storagePluginName, encryptionPluginName, authenticationPluginName,
                        secretName, secret, unlockSemantic, 0, accessControlMode,
                        userInteractionMode, uiServiceAddress>>),
                 "Pending")

\* RequestProcessor::setStandaloneCustomLockSecretWithAuthenticationKey
\* (the row is written with UsesDeviceLockKey = 1, as the source does)
setStandaloneCustomLockSecretWithAuthenticationKey(S, callerPid, storagePluginName, encryptionPluginName, authenticationPluginName, secretName, secret, unlockSemantic, accessControlMode, authenticationKey, F) ==
    LET hashedSecretName == generateHashedSecretName(Standalone, secretName)
    IN  IF StandaloneRowCheck(S, callerPid, hashedSecretName, storagePluginName, 0)
               # "Succeeded"
        THEN Ret(S, StandaloneRowCheck(S, callerPid, hashedSecretName, storagePluginName, 0))
        ELSE WriteStandaloneSecret(S,
                 [collection |-> Standalone, hashed |-> hashedSecretName,
                  app |-> callerPid, dev |-> 1,
                  sto |-> storagePluginName, enc |-> encryptionPluginName,
                  auth |-> authenticationPluginName,
                  sem |-> unlockSemantic, acm |-> accessControlMode],
                 secret, authenticationKey, F)

\* RequestProcessor::getStandaloneSecretWithAuthenticationKey
getStandaloneSecretWithAuthenticationKey(S, secretName, storagePluginName, encryptionPluginName, secretUnlockSemantic, authenticationKey, F) ==
    LET hashedSecretName == generateHashedSecretName(Standalone, secretName)
        S0 == IF secretUnlockSemantic = CustomLockTimoutRelock
              THEN armStandaloneSecretLockTimer(S, secretName)
              ELSE S
        accessed == EncryptedStorage_accessSecret(S0, Standalone, hashedSecretName,
                                                  authenticationKey, F)
        encrypted == Storage_getSecret(S0, Standalone, hashedSecretName, F)
        decrypted == Encryption_decryptSecret(encrypted.S, encrypted.data,
                                              authenticationKey, F)
    IN  IF storagePluginName = encryptionPluginName
        THEN IF storagePluginName \notin m_encryptedStoragePlugins
             THEN Crash(S0)
             ELSE RetSecret(accessed.S, accessed.code,
                            IF accessed.code = "Succeeded" THEN accessed.data ELSE Empty)
        ELSE IF storagePluginName \notin m_storagePlugins
             THEN Crash(S0)
             ELSE IF encrypted.code # "Succeeded"
             THEN Ret(encrypted.S, encrypted.code)
             ELSE IF encryptionPluginName \notin m_encryptionPlugins
             THEN Crash(encrypted.S)
             ELSE RetSecret(decrypted.S, decrypted.code, decrypted.data)

\* RequestProcessor::getStandaloneSecret
getStandaloneSecret(S, callerPid, reqId, secretName, userInteractionMode, uiServiceAddress, F) ==
    LET hashedSecretName == generateHashedSecretName(Standalone, secretName)
        r == SecretRow(S, Standalone, hashedSecretName)
        authenticationResult == Authentication_beginAuthentication(S, reqId, F)
    IN  IF secretName = Empty
        THEN Ret(S, "InvalidSecretError")
        ELSE IF SecretRows(S, Standalone, hashedSecretName) = {}
        THEN Ret(S, "InvalidSecretError")
        ELSE IF StandalonePluginsCheck(r.sto, r.enc) # "Succeeded"
        THEN Ret(S, StandalonePluginsCheck(r.sto, r.enc))
        ELSE IF r.acm # OwnerOnlyMode
        THEN Ret(S, "OperationNotSupportedError")
        ELSE IF r.app # callerPid
        THEN Ret(S, "PermissionsError")
        ELSE IF authenticationType(r.auth) = ApplicationSpecificAuthentication
                /\ (userInteractionMode # InProcessUserInteractionMode
                    \/ uiServiceAddress = Empty)
        THEN Ret(S, "OperationRequiresInProcessUserInteraction")
        ELSE IF hashedSecretName \in DOMAIN S.m_standaloneSecretAuthenticationKeys
        THEN getStandaloneSecretWithAuthenticationKey(S, secretName, r.sto, r.enc, r.sem,
                 S.m_standaloneSecretAuthenticationKeys[hashedSecretName], F)
        ELSE IF r.dev = 1
        THEN Ret(S, "CollectionIsLockedError")
        ELSE IF InteractionPrevented(userInteractionMode)
        THEN Ret(S, "OperationRequiresUserInteraction")
        ELSE IF authenticationResult.code # "Succeeded"
        THEN Ret(authenticationResult.S, authenticationResult.code)
        ELSE Ret(Park(authenticationResult.S, reqId, callerPid,
                      "GetStandaloneSecretRequest",
                      <<Standalone, secretName, userInteractionMode, uiServiceAddress,
                        r.sto, r.enc, r.sem, 0>>),
                 "Pending")

\* RequestProcessor::deleteStandaloneSecret
deleteStandaloneSecret(S, callerPid, secretName, F) ==
    LET hashedSecretName == generateHashedSecretName(Standalone, secretName)
        r == SecretRow(S, Standalone, hashedSecretName)
        locked == EncryptedStorage_isLocked(S, Standalone, F)
        keyed == IF locked.locked /\ r.dev = 1
                 THEN EncryptedStorage_setEncryptionKey(locked.S, Standalone, DeviceLockKey, F)
                 ELSE [S |-> locked.S, code |-> "Succeeded"]
        esRemoved == EncryptedStorage_removeSecret(keyed.S, Standalone, hashedSecretName, F)
        esResult == IF locked.locked
                    THEN [esRemoved EXCEPT !.S = EncryptedStorage_setEncryptionKey(
                                                     esRemoved.S, Standalone, Empty, F).S]
                    ELSE esRemoved
        removed == Storage_removeSecret(S, Standalone, hashedSecretName, F)
        plainResult ==
            IF removed.code = "Succeeded"
            THEN [removed EXCEPT
                    !.S.m_standaloneSecretAuthenticationKeys = MapRemove(@, hashedSecretName),
                    !.S.m_standaloneSecretLockTimers = @ \ {hashedSecretName}]
            ELSE removed
        pluginResult == IF r.sto = r.enc THEN esResult ELSE plainResult
    IN  IF SecretRows(S, Standalone, hashedSecretName) = {}
        THEN Ret(S, "Succeeded")
        ELSE IF r.acm # OwnerOnlyMode
        THEN Ret(S, "OperationNotSupportedError")
        ELSE IF r.app # callerPid
        THEN Ret(S, "PermissionsError")
        ELSE IF StandalonePluginsCheck(r.sto, r.enc) # "Succeeded"
        THEN Ret(S, StandalonePluginsCheck(r.sto, r.enc))
        ELSE IF r.sto = r.enc /\ locked.code # "Succeeded"
        THEN Ret(locked.S, locked.code)
        ELSE IF r.sto = r.enc /\ keyed.code # "Succeeded"
        THEN Ret(keyed.S, keyed.code)
        ELSE IF pluginResult.code # "Succeeded"
        THEN Ret(pluginResult.S, "Succeeded")
        ELSE IF F = "db"
        THEN Ret(pluginResult.S, "DatabaseQueryError")
        ELSE Ret(DeleteSecretRow(pluginResult.S, Standalone, hashedSecretName), "Succeeded")

(***************************************************************************)
(* Authentication completion and relock timers                             *)
(***************************************************************************)
\* The order in which a build evaluates the arguments of a call.  The
\* language leaves it open; authenticationCompleted passes its continuations
\* one pr.parameters.takeFirst().value<T>() per argument.
ArgumentOrders == {"leftToRight", "rightToLeft"}

\* the numbers whose decimal text the model's strings can hold
DecimalNumbers == 0..15

\* QString::toInt / QByteArray::toInt: 0 for text that is no number
toInt(text) ==
    IF \E n \in DecimalNumbers : ToString(n) = text
    THEN CHOOSE n \in DecimalNumbers : ToString(n) = text
    ELSE 0

\* QVariant::value<T>() of a stored value v of type from, T being the type to
\* (bool is 0 or 1 in the model, as in the rows of the tables)
value(v, from, to) ==
    IF from = to
    THEN v
    ELSE IF from = "int" /\ to \in {"QString", "QByteArray"}
    THEN ToString(v)
    ELSE IF from = "bool" /\ to \in {"QString", "QByteArray"}
    THEN IF v = 1 THEN "true" ELSE "false"
    ELSE IF from \in {"QString", "QByteArray"} /\ to = "int"
    THEN toInt(v)
    ELSE IF from \in {"QString", "QByteArray"} /\ to = "bool"
    THEN IF v \in {Empty, "0", "false"} THEN 0 ELSE 1
    ELSE IF from = "int" /\ to = "bool"
    THEN IF v = 0 THEN 0 ELSE 1
    ELSE v

\* the types authenticationCompleted takes the parked parameters of a
\* request type as, in the order of the continuation's arguments
ParameterTypes(requestType) ==
    IF requestType = "CreateCustomLockCollectionRequest"
    THEN <<"QString", "QString", "QString", "QString", "int", "int", "int", "int",
           "QString">>
    ELSE IF requestType = "SetCollectionSecretRequest"
    THEN <<"QString", "QString", "QByteArray", "int", "QString", "bool", "QString",
           "QString", "QString", "QString", "int", "int", "int">>
    ELSE IF requestType = "SetStandaloneCustomLockSecretRequest"
    THEN <<"QString", "QString", "QString", "QString", "QByteArray", "int", "int",
           "int", "int", "QString">>
    ELSE IF requestType = "GetCollectionSecretRequest"
    THEN <<"QString", "QString", "int", "QString", "QString", "QString", "int", "int">>
    ELSE IF requestType = "GetStandaloneSecretRequest"
    THEN <<"QString", "int", "QString", "QString", "QString", "int", "int">>
    ELSE IF requestType = "DeleteCollectionSecretRequest"
    THEN <<"QString", "QString", "int", "QString">>
    ELSE <<>>

\* The arguments the continuation receives from as many takeFirst() calls as
\* it has parameters: evaluated left to right the k-th argument takes the
\* k-th parked parameter, evaluated right to left it takes the k-th from the
\* end, converted to the type of the k-th argument.  (A parameter is parked
\* with the type its own position is taken as.)
takeParameters(parameters, types, order) ==
    [k \in 1..Len(types) |->
        IF order = "leftToRight"
        THEN value(parameters[k], types[k], types[k])
        ELSE value(parameters[Len(types) + 1 - k], types[Len(types) + 1 - k], types[k])]

\* RequestProcessor::authenticationCompleted after a successful
\* authentication: the parked request is looked up, taken and handed to the
\* continuation of its type; order is the order in which the build evaluates
\* the arguments of the continuation.
resumePendingRequest(S, reqId, authenticationKey, order, F) ==
    IF reqId \notin DOMAIN S.m_pendingRequests
    THEN Ret(S, "UnknownError")
    ELSE
    LET pr == S.m_pendingRequests[reqId]
        p == takeParameters(pr.parameters, ParameterTypes(pr.requestType), order)
        S1 == [S EXCEPT !.m_pendingRequests = MapRemove(@, reqId)]
    IN  IF pr.requestType = "CreateCustomLockCollectionRequest"
        THEN IF Len(pr.parameters) # 9 THEN Ret(S1, "UnknownError")
             ELSE createCustomLockCollectionWithAuthenticationKey(S1, pr.callerPid,
                      p[1], p[2], p[3], p[4], p[5], p[7], authenticationKey, F)
        ELSE IF pr.requestType = "SetCollectionSecretRequest"
        THEN IF Len(pr.parameters) # 13 THEN Ret(S1, "UnknownError")
             ELSE setCollectionSecretWithAuthenticationKey(S1, p[1], p[2], p[3], p[6],
                      p[7], p[8], p[9], p[10], p[11], p[13], authenticationKey, F)
        ELSE IF pr.requestType = "SetStandaloneCustomLockSecretRequest"
        THEN IF Len(pr.parameters) # 10 THEN Ret(S1, "UnknownError")
             ELSE setStandaloneCustomLockSecretWithAuthenticationKey(S1, pr.callerPid,
                      p[1], p[2], p[3], p[4], p[5], p[6], p[8], authenticationKey, F)
        ELSE IF pr.requestType = "GetCollectionSecretRequest"
        THEN IF Len(pr.parameters) # 8 THEN Ret(S1, "UnknownError")
             ELSE getCollectionSecretWithAuthenticationKey(S1, p[1], p[2], p[5], p[6],
                      p[7], authenticationKey, F)
        ELSE IF pr.requestType = "GetStandaloneSecretRequest"
        THEN IF Len(pr.parameters) # 7 THEN Ret(S1, "UnknownError")
             ELSE getStandaloneSecretWithAuthenticationKey(S1, p[1], p[4], p[5], p[6],
                      authenticationKey, F)
        ELSE IF pr.requestType = "DeleteCollectionSecretRequest"
        THEN IF Len(pr.parameters) # 4 THEN Ret(S1, "UnknownError")
             ELSE deleteCollectionSecretWithAuthenticationKey(S1, pr.callerPid,
                      p[1], p[2], authenticationKey, F)
        ELSE Ret(S1, "UnknownError")

\* an authenticationCompleted that resumes the parked request whatever the
\* result of the authentication was
authenticationCompletedWhateverResult(S, reqId, resultCode, authenticationKey, order, F) ==
    resumePendingRequest(S, reqId, authenticationKey, order, F)

\* RequestProcessor::authenticationCompleted, up to its call of
\* requestFinished
authenticationCompleted(S, reqId, resultCode, authenticationKey, order, F) ==
    IF resultCode # "Succeeded"
    THEN Ret(S, resultCode)
    ELSE resumePendingRequest(S, reqId, authenticationKey, order, F)

\* RequestProcessor::timeoutRelockCollection
timeoutRelockCollection(S, collectionName) ==
    [S EXCEPT !.m_collectionAuthenticationKeys = MapRemove(@, collectionName),
              !.m_collectionLockTimers = @ \ {collectionName}]

\* RequestProcessor::timeoutRelockSecret (the timers are keyed by the clear
\* secret name, and that key is removed from the key cache)
timeoutRelockSecret(S, secretName) ==
    [S EXCEPT !.m_standaloneSecretAuthenticationKeys = MapRemove(@, secretName),
              !.m_standaloneSecretLockTimers = @ \ {secretName}]

\* RequestProcessor::loadPlugins over the plugin files in name order
RECURSIVE loadPlugins(_, _)
loadPlugins(files, registry) ==
    IF files = <<>>
    THEN registry
    ELSE LET plugin == Head(files)
             loaded ==
                 IF plugin.kind = "storage"
                 THEN IF plugin.name = Empty \/ plugin.name \in registry.storage
                      THEN registry
                      ELSE [registry EXCEPT !.storage = @ \cup {plugin.name}]
                 ELSE IF plugin.kind = "encryption"
                 THEN IF plugin.name = Empty \/ plugin.name \in registry.storage
                      THEN registry
                      ELSE [registry EXCEPT !.encryption = @ \cup {plugin.name}]
                 ELSE IF plugin.kind = "encryptedStorage"
                 THEN IF plugin.name = Empty \/ plugin.name \in registry.encryptedStorage
                      THEN registry
                      ELSE [registry EXCEPT !.encryptedStorage = @ \cup {plugin.name}]
                 ELSE IF plugin.kind = "authentication"
                 THEN IF plugin.name = Empty \/ plugin.name \in registry.authentication
                      THEN registry
                      ELSE [registry EXCEPT !.authentication = @ \cup {plugin.name}]
                 ELSE registry
         IN  loadPlugins(Tail(files), loaded)

EmptyRegistry ==
    [storage |-> {}, encryption |-> {}, encryptedStorage |-> {}, authentication |-> {}]

\* the plugin directory: an encrypted storage plugin "es" together with an
\* encryption plugin and a storage plugin of the same name, a storage plugin
\* "sto", an encryption plugin "enc" and the two authentication plugins
PluginDirectories ==
    {<< [kind |-> "encryption", name |-> "es"],
        [kind |-> "storage", name |-> "es"],
        [kind |-> "encryptedStorage", name |-> "es"],
        [kind |-> "storage", name |-> "sto"],
        [kind |-> "encryption", name |-> "enc"],
        [kind |-> "authentication", name |-> DefaultAuthenticationPluginName],
        [kind |-> "authentication", name |-> InAppAuthenticationPluginName] >>}

\* plugin directories in which the encrypted storage plugin "es" comes with
\* or without a storage plugin and an encryption plugin of its name
EncryptedStorageDirectories ==
    PluginDirectories \cup
    {<< [kind |-> "encryptedStorage", name |-> "es"],
        [kind |-> "storage", name |-> "sto"],
        [kind |-> "encryption", name |-> "enc"],
        [kind |-> "authentication", name |-> DefaultAuthenticationPluginName],
        [kind |-> "authentication", name |-> InAppAuthenticationPluginName] >>}

(***************************************************************************)
(* Dispatch of the queued requests (src/daemon/SecretsImpl/secrets.cpp and *)
(* RequestQueue::handleRequests of src/daemon/requestqueue.cpp)            *)
(***************************************************************************)
\* inParams.size() ? inParams.takeFirst() : default, for the k-th parameter
Param(inParams, k, default) == IF Len(inParams) >= k THEN inParams[k] ELSE default

\* the request types whose reply carries the secret
SecretReplyTypes == {"GetCollectionSecretRequest", "GetStandaloneSecretRequest"}

\* number of parameters that handlePendingRequest takes from the front of inParams
TakenParams(type) ==
    IF type = "CreateDeviceLockCollectionRequest" THEN 5
    ELSE IF type = "CreateCustomLockCollectionRequest" THEN 9
    ELSE IF type = "DeleteCollectionRequest" THEN 2
    ELSE IF type = "SetCollectionSecretRequest" THEN 5
    ELSE IF type = "SetStandaloneDeviceLockSecretRequest" THEN 7
    ELSE IF type = "SetStandaloneCustomLockSecretRequest" THEN 10
    ELSE IF type = "GetCollectionSecretRequest" THEN 4
    ELSE IF type = "GetStandaloneSecretRequest" THEN 3
    ELSE IF type = "DeleteCollectionSecretRequest" THEN 4
    ELSE IF type = "DeleteStandaloneSecretRequest" THEN 2
    ELSE 0

\* the reply to a request: asynchronousCryptoRequestCompleted for a request
\* of the crypto helper, a reply message on the connection of a client
Reply(request, code, outputs) ==
    [requestId |-> request.requestId, cryptoRequestId |-> request.cryptoRequestId,
     channel |-> IF request.isSecretsCryptoRequest
                 THEN "asynchronousCryptoRequestCompleted" ELSE "connection",
     code |-> code, outputs |-> outputs]

\* the call of the request processor that handlePendingRequest makes
ProcessRequest(S, request, F) ==
    LET p == request.inParams
        pid == request.remotePid
        id == request.requestId
        type == request.type
    IN  IF type = "CreateDeviceLockCollectionRequest"
        THEN createDeviceLockCollection(S, pid, Param(p, 1, Empty), Param(p, 2, Empty), Param(p, 3, Empty), Param(p, 4, DeviceLockKeepUnlocked), Param(p, 5, OwnerOnlyMode), F)
        ELSE IF type = "CreateCustomLockCollectionRequest"
        THEN createCustomLockCollection(S, pid, id, Param(p, 1, Empty), Param(p, 2, Empty), Param(p, 3, Empty), Param(p, 4, Empty), Param(p, 5, CustomLockKeepUnlocked), Param(p, 7, OwnerOnlyMode), Param(p, 8, PreventUserInteractionMode), Param(p, 9, Empty), F)
        ELSE IF type = "DeleteCollectionRequest"
        THEN deleteCollection(S, pid, Param(p, 1, Empty), F)
        ELSE IF type = "SetCollectionSecretRequest"
        THEN setCollectionSecret(S, pid, id, Param(p, 1, Empty), Param(p, 2, Empty), Param(p, 3, Empty), Param(p, 4, PreventUserInteractionMode), Param(p, 5, Empty), F)
        ELSE IF type = "SetStandaloneDeviceLockSecretRequest"
        THEN setStandaloneDeviceLockSecret(S, pid, Param(p, 1, Empty), Param(p, 2, Empty), Param(p, 3, Empty), Param(p, 4, Empty), Param(p, 5, DeviceLockKeepUnlocked), Param(p, 6, OwnerOnlyMode), F)
        ELSE IF type = "SetStandaloneCustomLockSecretRequest"
        THEN setStandaloneCustomLockSecret(S, pid, id, Param(p, 1, Empty), Param(p, 2, Empty), Param(p, 3, Empty), Param(p, 4, Empty), Param(p, 5, Empty), Param(p, 6, CustomLockKeepUnlocked), Param(p, 8, OwnerOnlyMode), Param(p, 9, PreventUserInteractionMode), Param(p, 10, Empty), F)
        ELSE IF type = "GetCollectionSecretRequest"
        THEN getCollectionSecret(S, pid, id, Param(p, 1, Empty), Param(p, 2, Empty), Param(p, 3, PreventUserInteractionMode), Param(p, 4, Empty), F)
        ELSE IF type = "GetStandaloneSecretRequest"
        THEN getStandaloneSecret(S, pid, id, Param(p, 1, Empty), Param(p, 2, PreventUserInteractionMode), Param(p, 3, Empty), F)
        ELSE IF type = "DeleteCollectionSecretRequest"
        THEN deleteCollectionSecret(S, pid, id, Param(p, 1, Empty), Param(p, 2, Empty), Param(p, 3, PreventUserInteractionMode), Param(p, 4, Empty), F)
        ELSE deleteStandaloneSecret(S, pid, Param(p, 1, Empty), F)

\* a handler of pending requests that replies whatever the result is
handlePendingRequestAlwaysReplies(S, request, F) ==
    LET result == ProcessRequest(S, request, F)
    IN  [S |-> result.S, completed |-> TRUE,
         replies |-> << Reply(request, result.code, <<>>) >>]

\* the key the user gives in a flow that completes at once
ReentrantKey == "k1"

\* The call of the request processor when the authentication plugin emits
\* authenticationCompleted before beginAuthentication returns.  The signal is
\* connected directly, so RequestProcessor::authenticationCompleted runs
\* inside beginAuthentication: on the processor as the handler has left it
\* when it begins the authentication, which is its state at the return
\* without the parked request (the handlers do nothing but park the request
\* after the call).  It ends with requestFinished(requestId, (result,
\* secret)), which the history of the calls records; then the handler parks
\* the request and returns Pending.  A handler that begins no authentication
\* is not concerned.
CompletedWithin(S, request, r) ==
    IF r.code # "Pending"
    THEN r
    ELSE CHOOSE parked \in
           {IF completed.code = "Crash"
            THEN completed
            ELSE Ret([completed.S EXCEPT
                         !.m_pendingRequests =
                             MapInsert(@, request.requestId,
                                       r.S.m_pendingRequests[request.requestId]),
                         !.calls = Append(@, [op |-> "requestFinished",
                                              collection |-> Empty,
                                              arg |-> completed.secret,
                                              code |-> completed.code])],
                     "Pending") :
               completed \in {authenticationCompleted(
                                 [r.S EXCEPT !.m_pendingRequests = S.m_pendingRequests,
                                             !.authFlows = S.authFlows],
                                 request.requestId, "Succeeded", ReentrantKey,
                                 "leftToRight", "none")}} : TRUE

\* the call of processRequest of handlePendingRequest, of a processor whose
\* authentication plugin completes the flows at once (F = "reentrant") or
\* later
ProcessRequestWith(S, request, F) ==
    CHOOSE result \in
      {IF F = "reentrant" THEN CompletedWithin(S, request, r) ELSE r :
          r \in {ProcessRequest(S, request, IF F = "reentrant" THEN "none" ELSE F)}} : TRUE

\* SecretsRequestQueue::handlePendingRequest: the request is processed; a
\* result of Pending leaves it uncompleted, every other result is sent as the
\* reply and completes it.  A request of no known type is left uncompleted.
handlePendingRequest(S, request, F) ==
    IF TakenParams(request.type) = 0
    THEN [S |-> S, completed |-> FALSE, replies |-> <<>>]
    ELSE CHOOSE handled \in
           {IF result.code = "Pending"
            THEN [S |-> result.S, completed |-> FALSE, replies |-> <<>>]
            ELSE [S |-> result.S, completed |-> TRUE,
                  replies |-> << Reply(request, result.code,
                                       IF request.type \in SecretReplyTypes
                                       THEN <<result.secret>> ELSE <<>>) >>]
            : result \in {ProcessRequestWith(S, request, F)}} : TRUE

\* a handler of finished requests that completes them without a reply
handleFinishedRequestSilent(request) == [completed |-> TRUE, replies |-> <<>>]

\* SecretsRequestQueue::handleFinishedRequest: the result stored by
\* requestFinished is sent as the reply; a stored result of Pending completes
\* the request without a reply.  A request of no known type stays.
handleFinishedRequest(request) ==
    IF TakenParams(request.type) = 0
    THEN [completed |-> FALSE, replies |-> <<>>]
    ELSE LET result == Param(request.outParams, 1, "UnknownError")
         IN  IF result = "Pending"
             THEN [completed |-> TRUE, replies |-> <<>>]
             ELSE [completed |-> TRUE,
                   replies |-> << Reply(request, result,
                                        IF request.type \in SecretReplyTypes
                                        THEN <<Param(request.outParams, 2, Empty)>>
                                        ELSE <<>>) >>]

\* SecretsRequestQueue::asynchronousCryptoRequestCompleted: the completion of
\* a crypto request that m_cryptoApiHelperRequests does not hold is dropped
\* with a warning; the entry of one it holds is taken and the signal of its
\* call type is emitted (storedKeyCompleted with the first parameter, the
\* serialised key)
asynchronousCryptoRequestCompleted(helperRequests, cryptoRequestId, result, parameters) ==
    IF cryptoRequestId \notin DOMAIN helperRequests
    THEN [helperRequests |-> helperRequests, emitted |-> <<>>]
    ELSE LET type == helperRequests[cryptoRequestId]
             taken == [id \in DOMAIN helperRequests \ {cryptoRequestId} |-> helperRequests[id]]
         IN  [helperRequests |-> taken,
              emitted |->
                  IF type = "StoredKeyCryptoApiHelperRequest"
                  THEN << [signal |-> "storedKeyCompleted", cryptoRequestId |-> cryptoRequestId,
                           result |-> result,
                           serialisedKey |-> Param(parameters, 1, Empty)] >>
                  ELSE IF type = "DeleteStoredKeyCryptoApiHelperRequest"
                  THEN << [signal |-> "deleteStoredKeyCompleted",
                           cryptoRequestId |-> cryptoRequestId,
                           result |-> result, serialisedKey |-> Empty] >>
                  ELSE IF type = "StoreKeyCryptoApiHelperRequest"
                  THEN << [signal |-> "storeKeyCompleted", cryptoRequestId |-> cryptoRequestId,
                           result |-> result, serialisedKey |-> Empty] >>
                  ELSE <<>>]

\* the calls of asynchronousCryptoRequestCompleted that the handlers of a pass
\* make, one for each reply to a request of the crypto helper, in the order
\* of the replies
RECURSIVE CryptoRequestsCompleted(_, _)
CryptoRequestsCompleted(helperRequests, replies) ==
    IF replies = <<>>
    THEN [helperRequests |-> helperRequests, emitted |-> <<>>]
    ELSE LET reply == Head(replies)
             first == IF reply.channel = "asynchronousCryptoRequestCompleted"
                      THEN asynchronousCryptoRequestCompleted(helperRequests,
                               reply.cryptoRequestId, reply.code, reply.outputs)
                      ELSE [helperRequests |-> helperRequests, emitted |-> <<>>]
             rest == CryptoRequestsCompleted(first.helperRequests, Tail(replies))
         IN  [helperRequests |-> rest.helperRequests,
              emitted |-> first.emitted \o rest.emitted]

\* a pass that dispatches the newest pending request only
HandlePassNewestFirst(requests, i, S, F, budget) ==
    LET n == Len(requests)
    IN  IF n = 0 \/ requests[n].status # RequestPending
        THEN [requests |-> requests, S |-> S, yielded |-> FALSE,
              dispatched |-> <<>>, replies |-> <<>>]
        ELSE LET pending == handlePendingRequest(S, requests[n], F)
             IN  [requests |-> IF pending.completed
                               THEN SubSeq(requests, 1, n - 1)
                               ELSE [requests EXCEPT ![n].status = RequestInProgress,
                                                     ![n].inParams = <<>>],
                  S |-> pending.S, yielded |-> FALSE,
                  dispatched |-> <<requests[n].requestId>>,
                  replies |-> pending.replies]

\* the calls of requestFinished that were made while the processor went from
\* state S to state T (by an authentication that completed inside
\* beginAuthentication)
RequestsFinishedWithin(S, T) ==
    IF Len(T.calls) <= Len(S.calls) THEN <<>>
    ELSE SelectSeq(SubSeq(T.calls, Len(S.calls) + 1, Len(T.calls)),
                   LAMBDA c : c.op = "requestFinished")

\* the list after the calls of RequestQueue::requestFinished for the request
\* of the id that were made while its handler ran
RECURSIVE FinishAll(_, _, _)
FinishAll(requests, id, finished) ==
    IF finished = <<>> THEN requests
    ELSE FinishAll(requestFinished(requests, 0, id,
                                   <<Head(finished).code, Head(finished).arg>>).requests,
                   id, Tail(finished))

\* What an iteration of the loop of handleRequests does with the request at
\* position i: the list, the position of the next iteration, the processor
\* state, the id dispatched and the replies sent.  (The handler's outcome is
\* bound as the element of a singleton, which has it computed once.)
HandleAt(requests, i, S, F) ==
    LET request == requests[i]
        erased  == SubSeq(requests, 1, i - 1) \o SubSeq(requests, i + 1, Len(requests))
        started == [request EXCEPT !.status = RequestInProgress,
                                   !.inParams = SubSeq(@, TakenParams(request.type) + 1, Len(@))]
    IN  IF request.status = RequestPending
        THEN CHOOSE h \in {[requests |-> IF pending.completed THEN erased
                                         ELSE FinishAll([requests EXCEPT ![i] = started],
                                                        request.requestId,
                                                        RequestsFinishedWithin(S, pending.S)),
                            next |-> IF pending.completed THEN i ELSE i + 1,
                            S |-> pending.S,
                            dispatched |-> <<request.requestId>>,
                            replies |-> pending.replies] :
                           pending \in {handlePendingRequest(S, request, F)}} : TRUE
        ELSE IF request.status = RequestFinished
        THEN CHOOSE h \in {[requests |-> IF finished.completed THEN erased ELSE requests,
                            next |-> IF finished.completed THEN i ELSE i + 1,
                            S |-> S, dispatched |-> <<>>, replies |-> finished.replies] :
                           finished \in {handleFinishedRequest(request)}} : TRUE
        ELSE [requests |-> requests, next |-> i + 1,
              S |-> S, dispatched |-> <<>>, replies |-> <<>>]

\* One pass of RequestQueue::handleRequests over the list from position i, the
\* processor being in state S.  budget: number of iterations before the
\* 100 ms yield timer has elapsed.  Returns the list and the processor state
\* after the pass, the ids dispatched to handlePendingRequest and the replies
\* sent, each in the order of the pass, and whether the pass yielded.
RECURSIVE HandlePass(_, _, _, _, _)
HandlePass(requests, i, S, F, budget) ==
    IF i > Len(requests)
    THEN [requests |-> requests, S |-> S, yielded |-> FALSE,
          dispatched |-> <<>>, replies |-> <<>>]
    ELSE CHOOSE result \in
           {IF Len(handled.requests) > 0 /\ budget <= 1
            THEN [requests |-> handled.requests, S |-> handled.S, yielded |-> TRUE,
                  dispatched |-> handled.dispatched, replies |-> handled.replies]
            ELSE CHOOSE r \in
                   {[requests |-> rest.requests, S |-> rest.S, yielded |-> rest.yielded,
                     dispatched |-> handled.dispatched \o rest.dispatched,
                     replies |-> handled.replies \o rest.replies] :
                    rest \in {HandlePass(handled.requests, handled.next, handled.S, F, budget - 1)}} : TRUE
            : handled \in {HandleAt(requests, i, S, F)}} : TRUE

(***************************************************************************)
(* Actions of the request processor                                        *)
(***************************************************************************)
NoOperation ==
    [op |-> "None", app |-> Empty, collection |-> Empty, secretName |-> Empty,
     secret |-> Empty, fault |-> "none", resumed |-> FALSE, authentication |-> Empty,
     hadRow |-> FALSE, unlocked |-> FALSE, code |-> Empty, out |-> Empty, wrote |-> FALSE, streak |-> 0,
     parked |-> <<>>, taken |-> <<>>]

\* what is remembered of the operation before the latest one: a successful
\* write or delete of a secret, or nothing
NoPrevious ==
    [op |-> "None", app |-> Empty, collection |-> Empty, secretName |-> Empty,
     secret |-> Empty, streak |-> 0]
Previous ==
    IF last.code = "Succeeded"
       /\ last.op \in {"SetCollectionSecret", "DeleteCollectionSecret",
                       "SetStandaloneDeviceLockSecret", "SetStandaloneCustomLockSecret",
                       "DeleteStandaloneSecret"}
    THEN [op |-> last.op, app |-> last.app, collection |-> last.collection,
          secretName |-> last.secretName, secret |-> last.secret,
          streak |-> last.streak]
    ELSE NoPrevious

\* the id the queue gives to the next request: the smallest one that no
\* tracked request uses (0: there is none)
NextRequestId(ids) ==
    IF ids \subseteq authFlows THEN 0
    ELSE CHOOSE i \in ids \ authFlows : \A j \in ids \ authFlows : i <= j

\* owner and access control mode recorded by the master row of a collection
\* (of a standalone secret: by its Secrets row)
RowOf(collectionName, secretName) ==
    IF collectionName = Standalone
    THEN {[app |-> r.app, acm |-> r.acm] :
             r \in SecretRows(ProcessorState, Standalone,
                              generateHashedSecretName(Standalone, secretName))}
    ELSE {[app |-> r.app, acm |-> r.acm] :
             r \in CollectionRows(ProcessorState, collectionName)}
RowOwner(collectionName, secretName) ==
    IF RowOf(collectionName, secretName) = {} THEN Empty
    ELSE (CHOOSE r \in RowOf(collectionName, secretName) : TRUE).app
RowAcm(collectionName, secretName) ==
    IF RowOf(collectionName, secretName) = {} THEN OwnerOnlyMode
    ELSE (CHOOSE r \in RowOf(collectionName, secretName) : TRUE).acm

\* the collection is unlocked: the key of a collection on a storage plugin is
\* cached, an encrypted storage plugin reports its collection unlocked
CollectionUnlocked(collectionName) ==
    /\ CollectionRows(ProcessorState, collectionName) # {}
    /\ collectionName # Standalone
    /\ LET row == CollectionRow(ProcessorState, collectionName)
       IN  IF row.sto = row.enc
           THEN EsUnlocked(ProcessorState, collectionName)
           ELSE collectionName \in DOMAIN m_collectionAuthenticationKeys

\* one processor operation with return r takes effect (r0: its return when no
\* fault is injected; a fault that changes nothing was not met); a request
\* can only be parked under a request id.  authenticationCompleted ends with
\* requestFinished(requestId, (result, secret)), which a continuation that
\* ended the daemon never reaches.  parked and taken: the parameters the
\* resumed request was parked with and the ones its continuation received.
Finishes(op, app, collectionName, secretName, secret, F, authentication, reqId, r, r0, parked, taken) ==
    \E result \in {r}, result0 \in {r0} :
    /\ result.code = "Pending" => reqId # 0
    /\ SetProcessorState(result.S)
    /\ last' = [op |-> op, app |-> app, collection |-> collectionName,
                secretName |-> secretName, secret |-> secret,
                fault |-> IF result = result0 THEN "none"
                          ELSE IF F = "compensate" THEN F ELSE "fault",
                resumed |-> (authentication # Empty),
                authentication |-> authentication,
                hadRow |-> (CollectionRows(ProcessorState, collectionName) # {}),
                unlocked |-> CollectionUnlocked(collectionName),
                code |-> result.code, out |-> result.secret,
                wrote |-> (\/ result.S.Collections # Collections
                           \/ result.S.Secrets # Secrets
                           \/ result.S.storageColls # storageColls
                           \/ result.S.storageData # storageData
                           \/ DOMAIN result.S.esColls # DOMAIN esColls
                           \/ result.S.esData # esData),
                streak |-> IF op = "SetCollectionSecret" /\ result.code = "Succeeded"
                           THEN IF last.streak > 0 /\ last.app = app
                                   /\ last.collection = collectionName
                                   /\ last.secretName = secretName
                                THEN 2 ELSE 1
                           ELSE 0,
                parked |-> parked, taken |-> taken]
    /\ prev' = Previous
    /\ \E finished \in {IF authentication # Empty /\ result.code # "Crash"
                        THEN requestFinished(m_requests, queuedHandleRequests, reqId,
                                             <<result.code, result.secret>>)
                        ELSE [requests |-> m_requests, queued |-> queuedHandleRequests]} :
           /\ m_requests' = finished.requests
           /\ queuedHandleRequests' = finished.queued
    /\ pass' = NoPass
    /\ UNCHANGED <<requestId, m_cryptoApiHelperRequests, wrapped, lastEnqueue, registryVars>>

\* an operation that resumes no parked request
Completes(op, app, collectionName, secretName, secret, F, authentication, reqId, r, r0) ==
    Finishes(op, app, collectionName, secretName, secret, F, authentication, reqId, r, r0,
             <<>>, <<>>)

\* In the actions, D is the record of the sets the inputs are drawn from.
CreateDeviceLockCollection(D) ==
    \E app \in D.apps, c \in D.collections, pair \in D.pairs, acm \in D.acms,
       F \in D.faults \cap {"none", "db", "plugin", "compensate"} :
        Completes("CreateDeviceLockCollection", app, c, Empty, Empty, F, Empty, 0,
                  createDeviceLockCollection(ProcessorState, app, c, pair[1], pair[2],
                                             DeviceLockKeepUnlocked, acm, F),
                  createDeviceLockCollection(ProcessorState, app, c, pair[1], pair[2],
                                             DeviceLockKeepUnlocked, acm, "none"))

CreateCustomLockCollection(D) ==
    \E app \in D.apps, c \in D.collections, pair \in D.pairs, auth \in D.auths,
       sem \in D.sems, acm \in D.customAcms, ui \in D.uis,
       F \in D.faults \cap {"none", "auth"} :
        Completes("CreateCustomLockCollection", app, c, Empty, Empty, F, Empty,
                  NextRequestId(D.ids),
                  createCustomLockCollection(ProcessorState, app, NextRequestId(D.ids), c,
                                             pair[1], pair[2], auth, sem, acm,
                                             ui[1], ui[2], F),
                  createCustomLockCollection(ProcessorState, app, NextRequestId(D.ids), c,
                                             pair[1], pair[2], auth, sem, acm,
                                             ui[1], ui[2], "none"))

DeleteCollection(D) ==
    \E app \in D.apps, c \in D.collections,
       F \in D.faults \cap {"none", "db", "plugin"} :
        Completes("DeleteCollection", app, c, Empty, Empty, F, Empty, 0,
                  deleteCollection(ProcessorState, app, c, F),
                  deleteCollection(ProcessorState, app, c, "none"))

SetCollectionSecret(D) ==
    \E app \in D.apps, c \in D.collections, sn \in D.secrets, v \in D.values,
       ui \in D.uis,
       F \in D.faults \cap {"none", "db", "plugin", "compensate", "isLocked",
                            "crypt", "auth"} :
        Completes("SetCollectionSecret", app, c, sn, v, F, Empty, NextRequestId(D.ids),
                  setCollectionSecret(ProcessorState, app, NextRequestId(D.ids), c, sn, v,
                                      ui[1], ui[2], F),
                  setCollectionSecret(ProcessorState, app, NextRequestId(D.ids), c, sn, v,
                                      ui[1], ui[2], "none"))

GetCollectionSecret(D) ==
    \E app \in D.apps, c \in D.collections, sn \in D.secrets, ui \in D.uis,
       F \in D.faults \cap {"none", "plugin", "isLocked", "crypt", "auth"} :
        Completes("GetCollectionSecret", app, c, sn, Empty, F, Empty,
                  NextRequestId(D.ids),
                  getCollectionSecret(ProcessorState, app, NextRequestId(D.ids), c, sn,
                                      ui[1], ui[2], F),
                  getCollectionSecret(ProcessorState, app, NextRequestId(D.ids), c, sn,
                                      ui[1], ui[2], "none"))

DeleteCollectionSecret(D) ==
    \E app \in D.apps, c \in D.collections, sn \in D.secrets, ui \in D.uis,
       F \in D.faults \cap {"none", "db", "plugin", "isLocked", "auth"} :
        Completes("DeleteCollectionSecret", app, c, sn, Empty, F, Empty,
                  NextRequestId(D.ids),
                  deleteCollectionSecret(ProcessorState, app, NextRequestId(D.ids), c, sn,
                                         ui[1], ui[2], F),
                  deleteCollectionSecret(ProcessorState, app, NextRequestId(D.ids), c, sn,
                                         ui[1], ui[2], "none"))

SetStandaloneDeviceLockSecret(D) ==
    \E app \in D.apps, pair \in D.pairs, sn \in D.secrets, v \in D.values,
       acm \in D.acms,
       F \in D.faults \cap {"none", "db", "plugin", "compensate", "crypt"} :
        Completes("SetStandaloneDeviceLockSecret", app, Standalone, sn, v, F, Empty, 0,
                  setStandaloneDeviceLockSecret(ProcessorState, app, pair[1], pair[2],
                                                sn, v, DeviceLockKeepUnlocked, acm, F),
                  setStandaloneDeviceLockSecret(ProcessorState, app, pair[1], pair[2],
                                                sn, v, DeviceLockKeepUnlocked, acm, "none"))

SetStandaloneCustomLockSecret(D) ==
    \E app \in D.apps, pair \in D.pairs, auth \in D.auths, sn \in D.secrets,
       v \in D.values, sem \in D.sems, acm \in D.customAcms, ui \in D.uis,
       F \in D.faults \cap {"none", "auth"} :
        Completes("SetStandaloneCustomLockSecret", app, Standalone, sn, v, F, Empty,
                  NextRequestId(D.ids),
                  setStandaloneCustomLockSecret(ProcessorState, app, NextRequestId(D.ids),
                                                pair[1], pair[2], auth, sn, v, sem, acm,
                                                ui[1], ui[2], F),
                  setStandaloneCustomLockSecret(ProcessorState, app, NextRequestId(D.ids),
                                                pair[1], pair[2], auth, sn, v, sem, acm,
                                                ui[1], ui[2], "none"))

GetStandaloneSecret(D) ==
    \E app \in D.apps, sn \in D.secrets, ui \in D.uis,
       F \in D.faults \cap {"none", "plugin", "crypt", "auth"} :
        Completes("GetStandaloneSecret", app, Standalone, sn, Empty, F, Empty,
                  NextRequestId(D.ids),
                  getStandaloneSecret(ProcessorState, app, NextRequestId(D.ids), sn,
                                      ui[1], ui[2], F),
                  getStandaloneSecret(ProcessorState, app, NextRequestId(D.ids), sn,
                                      ui[1], ui[2], "none"))

DeleteStandaloneSecret(D) ==
    \E app \in D.apps, sn \in D.secrets,
       F \in D.faults \cap {"none", "db", "plugin", "isLocked"} :
        Completes("DeleteStandaloneSecret", app, Standalone, sn, Empty, F, Empty, 0,
                  deleteStandaloneSecret(ProcessorState, app, sn, F),
                  deleteStandaloneSecret(ProcessorState, app, sn, "none"))

\* what a parked request is about: operation, collection, secret name, value
ParkedOperation(pr) ==
    LET p == pr.parameters
    IN  IF pr.requestType = "CreateCustomLockCollectionRequest"
        THEN <<"CreateCustomLockCollection", p[1], Empty, Empty>>
        ELSE IF pr.requestType = "SetCollectionSecretRequest"
        THEN <<"SetCollectionSecret", p[1], p[2], p[3]>>
        ELSE IF pr.requestType = "SetStandaloneCustomLockSecretRequest"
        THEN <<"SetStandaloneCustomLockSecret", Standalone, p[4], p[5]>>
        ELSE IF pr.requestType = "GetCollectionSecretRequest"
        THEN <<"GetCollectionSecret", p[1], p[2], Empty>>
        ELSE IF pr.requestType = "GetStandaloneSecretRequest"
        THEN <<"GetStandaloneSecret", p[1], p[2], Empty>>
        ELSE <<"DeleteCollectionSecret", p[1], p[2], Empty>>

\* the authentication plugin signals the completion of a flow; the user
\* gives a new collection or standalone secret the key D.newKey; the build
\* evaluates the arguments of the continuation in one of the orders D.orders
AuthenticationCompleted(D) ==
    \E id \in authFlows, resultCode \in D.results, key \in D.keys, order \in D.orders,
       F \in D.faults \cap {"none", "db", "plugin", "compensate", "isLocked",
                            "isLocked2", "setKey", "crypt"} :
        LET pr == m_pendingRequests[id]
            target == ParkedOperation(pr)
            types == ParameterTypes(pr.requestType)
            S == [ProcessorState EXCEPT !.authFlows = @ \ {id}]
        IN  /\ resultCode # "Succeeded" => (F = "none" /\ key = D.newKey)
            /\ resultCode # "Succeeded" => order = "leftToRight"
            /\ target[1] \in {"CreateCustomLockCollection",
                               "SetStandaloneCustomLockSecret"} => key = D.newKey
            /\ Finishes(target[1], pr.callerPid, target[2], target[3], target[4],
                        F, resultCode, id,
                        authenticationCompleted(S, id, resultCode, key, order, F),
                        authenticationCompleted(S, id, resultCode, key, order, "none"),
                        IF resultCode = "Succeeded" THEN pr.parameters ELSE <<>>,
                        IF resultCode = "Succeeded" /\ Len(pr.parameters) = Len(types)
                        THEN takeParameters(pr.parameters, types, order) ELSE <<>>)

\* the authentication plugin signals the completion of a flow a second time:
\* for a request that the first signal has finished and that has not had its
\* reply yet, or for a request id that is no longer tracked.
\* RequestProcessor::authenticationCompleted finds no parked request and ends
\* with requestFinished(requestId, (result, secret)).
AuthenticationCompletedAgain(D) ==
    \E id \in D.ids \ authFlows, resultCode \in D.results, key \in D.keys :
        /\ id \notin DOMAIN m_pendingRequests
        /\ \/ id \notin TrackedIds(m_requests)
           \/ \E i \in 1..Len(m_requests) : /\ m_requests[i].requestId = id
                                             /\ m_requests[i].status = RequestFinished
        /\ Finishes("AuthenticationCompleted", Empty, Empty, Empty, Empty,
                    "none", resultCode, id,
                    authenticationCompleted(ProcessorState, id, resultCode, key,
                                            "leftToRight", "none"),
                    authenticationCompleted(ProcessorState, id, resultCode, key,
                                            "leftToRight", "none"),
                    <<>>, <<>>)

\* RequestQueue::handleRequest: a client or the crypto helper has a request
\* of D.requests enqueued while fewer than D.maxTracked requests are tracked
HandleRequest(D) ==
    /\ Len(m_requests) < D.maxTracked
    /\ \E request \in D.requests : EnqueueRequest(request)
    /\ UNCHANGED <<m_cryptoApiHelperRequests, registryVars, processorVars>>

\* The helpers of the crypto subsystem (secretscryptohelpers.cpp): each
\* enqueues a request of the caller as part of the crypto request
\* cryptoRequestId, with user interaction prevented.  None of them writes
\* m_cryptoApiHelperRequests.  (The crypto subsystem gives the requests it
\* has under way distinct ids.)
CryptoHelper(D, requestType, withKey) ==
    /\ Len(m_requests) < D.maxTracked
    /\ \E callerPid \in D.apps, cryptoRequestId \in D.cryptoIds,
          collectionName \in D.collections, name \in D.secrets, serialisedKey \in D.values :
          /\ \A i \in 1..Len(m_requests) :
                 m_requests[i].isSecretsCryptoRequest
                 => m_requests[i].cryptoRequestId # cryptoRequestId
          /\ ~withKey => serialisedKey = CHOOSE v \in D.values : TRUE
          /\ EnqueueRequest(CryptoRequestData(callerPid, cryptoRequestId, requestType,
                 IF withKey
                 THEN <<collectionName, name, serialisedKey, PreventUserInteractionMode, Empty>>
                 ELSE <<collectionName, name, PreventUserInteractionMode, Empty>>))
    /\ UNCHANGED <<m_cryptoApiHelperRequests, registryVars, processorVars>>

\* SecretsRequestQueue::storeKey
StoreKey(D) == CryptoHelper(D, "SetCollectionSecretRequest", TRUE)

\* SecretsRequestQueue::deleteStoredKey
DeleteStoredKey(D) == CryptoHelper(D, "DeleteCollectionSecretRequest", FALSE)

\* SecretsRequestQueue::storedKey
StoredKey(D) == CryptoHelper(D, "GetCollectionSecretRequest", FALSE)

\* RequestQueue::handleRequests, run from a queued event
HandleRequests(D) ==
    /\ queuedHandleRequests > 0
    /\ \E budget \in 1..(Len(m_requests) + 1),
          F \in D.faults \cap {"none", "auth", "reentrant"} :
          \E run \in {HandlePass(m_requests, 1, ProcessorState, F, budget)} :
              /\ m_requests' = run.requests
              /\ queuedHandleRequests' =
                     IF RequestsFinishedWithin(ProcessorState, run.S) # <<>>
                     THEN InvokeHandleRequests(IF run.yielded
                                               THEN queuedHandleRequests
                                               ELSE queuedHandleRequests - 1)
                     ELSE IF run.yielded
                     THEN queuedHandleRequests
                     ELSE queuedHandleRequests - 1
              /\ \E completion \in {CryptoRequestsCompleted(m_cryptoApiHelperRequests,
                                                              run.replies)} :
                     /\ m_cryptoApiHelperRequests' = completion.helperRequests
                     /\ pass' = [handled |-> TRUE, dispatched |-> run.dispatched,
                                 replies |-> run.replies, yielded |-> run.yielded,
                                 emitted |-> completion.emitted]
              /\ SetProcessorState(run.S)
    /\ last' = [NoOperation EXCEPT !.op = "handleRequests"]
    /\ prev' = Previous
    /\ UNCHANGED <<requestId, wrapped, lastEnqueue, registryVars>>

\* the relock timer of a collection fires.  When the operation before was a
\* successful read of a secret of the collection, last keeps the reader, the
\* name of the secret and the secret that was read.
TimeoutRelockCollection ==
    \E c \in m_collectionLockTimers :
        /\ SetProcessorState(timeoutRelockCollection(ProcessorState, c))
        /\ last' = IF last.op = "GetCollectionSecret" /\ last.code = "Succeeded"
                      /\ last.collection = c
                   THEN [NoOperation EXCEPT !.op = "timeoutRelockCollection",
                                            !.collection = c, !.app = last.app,
                                            !.secretName = last.secretName,
                                            !.out = last.out]
                   ELSE [NoOperation EXCEPT !.op = "timeoutRelockCollection",
                                            !.collection = c]
        /\ prev' = Previous
        /\ UNCHANGED <<queueVars, registryVars>>

\* the relock timer of a standalone secret fires
TimeoutRelockSecret ==
    \E sn \in m_standaloneSecretLockTimers :
        /\ SetProcessorState(timeoutRelockSecret(ProcessorState, sn))
        /\ last' = [NoOperation EXCEPT !.op = "timeoutRelockSecret", !.secretName = sn]
        /\ prev' = Previous
        /\ UNCHANGED <<queueVars, registryVars>>

\* The daemon is restarted: the in-memory caches, timers and parked requests
\* are gone, the encrypted storage plugin holds no keys, the tables and the
\* plugin storage persist; the constructor inserts the standalone row again.
Restart ==
    /\ SetProcessorState(RestartState(ProcessorState))
    /\ last' = [NoOperation EXCEPT !.op = "Restart"]
    /\ prev' = Previous
    /\ UNCHANGED <<queueVars, registryVars>>

(***************************************************************************)
(* Initial states and specifications                                       *)
(***************************************************************************)
QueueInit ==
    /\ m_requests = <<>>
    /\ m_cryptoApiHelperRequests = EmptyMap
    /\ requestId = 0
    /\ queuedHandleRequests = 0
    /\ wrapped = FALSE
    /\ lastEnqueue = [code |-> "None", id |-> 0, inUseBefore |-> {}, delayedReply |-> FALSE]
    /\ pass = NoPass

\* the state after the construction of the processor and loadPlugins over
\* one of the plugin directories
ProcessorInitFrom(directories) ==
    /\ \E directory \in directories :
          LET registry == loadPlugins(directory, EmptyRegistry)
          IN  /\ m_storagePlugins = registry.storage
              /\ m_encryptionPlugins = registry.encryption
              /\ m_encryptedStoragePlugins = registry.encryptedStorage
              /\ m_authenticationPlugins = registry.authentication
    /\ Collections = {StandaloneCollectionRow}
    /\ Secrets = {}
    /\ storageColls = {}
    /\ storageData = EmptyMap
    /\ esColls = EmptyMap
    /\ esData = EmptyMap
    /\ m_collectionAuthenticationKeys = EmptyMap
    /\ m_standaloneSecretAuthenticationKeys = EmptyMap
    /\ m_collectionLockTimers = {}
    /\ m_standaloneSecretLockTimers = {}
    /\ m_pendingRequests = EmptyMap
    /\ authFlows = {}
    /\ calls = <<>>
    /\ last = NoOperation
    /\ prev = NoPrevious

ProcessorInit == ProcessorInitFrom(PluginDirectories)

Init == QueueInit /\ ProcessorInit


\* ---- the sets the inputs are drawn from ----
\* user interaction inputs: (mode, ui service address)
PreventInteraction == <<PreventUserInteractionMode, Empty>>
SystemInteraction == <<SystemUserInteractionMode, Empty>>
InProcessInteraction == <<InProcessUserInteractionMode, "ui">>
PlainStorage == <<"sto", "enc">>
EncryptedStorage == <<"es", "es">>
\* a storage plugin that is not loaded
MissingStorage == <<"missing", "enc">>

\* collections on a storage plugin with an encryption plugin (or on a storage
\* plugin that is not loaded), and their secrets: two applications, one
\* request parked at a time
Inputs ==
    [ids |-> {1}, apps |-> {"A", "B"}, collections |-> {"c1"}, secrets |-> {"s1"},
     values |-> {"V1", "V2"}, keys |-> {"k1", "k2"}, newKey |-> "k1",
     results |-> {"Succeeded"},
     pairs |-> {PlainStorage, MissingStorage},
     auths |-> {DefaultAuthenticationPluginName, InAppAuthenticationPluginName},
     sems |-> {CustomLockKeepUnlocked},
     acms |-> {OwnerOnlyMode, SystemAccessControlMode},
     customAcms |-> {OwnerOnlyMode},
     uis |-> {PreventInteraction, InProcessInteraction},
     faults |-> {"none", "db", "plugin", "compensate", "crypt"},
     orders |-> {"leftToRight"}]

Next ==
    \/ CreateDeviceLockCollection(Inputs)
    \/ CreateCustomLockCollection(Inputs)
    \/ DeleteCollection(Inputs)
    \/ SetCollectionSecret(Inputs)
    \/ GetCollectionSecret(Inputs)
    \/ DeleteCollectionSecret(Inputs)
    \/ AuthenticationCompleted(Inputs)
    \/ Restart

Spec == Init /\ [][Next]_vars

\* collections on an encrypted storage plugin, and their secrets
EncryptedStorageInputs ==
    [Inputs EXCEPT !.pairs = {EncryptedStorage},
                   !.faults = {"none", "db", "plugin", "compensate", "isLocked",
                               "isLocked2", "setKey"}]

EncryptedStorageNext ==
    \/ CreateDeviceLockCollection(EncryptedStorageInputs)
    \/ CreateCustomLockCollection(EncryptedStorageInputs)
    \/ DeleteCollection(EncryptedStorageInputs)
    \/ SetCollectionSecret(EncryptedStorageInputs)
    \/ GetCollectionSecret(EncryptedStorageInputs)
    \/ DeleteCollectionSecret(EncryptedStorageInputs)
    \/ AuthenticationCompleted(EncryptedStorageInputs)
    \/ Restart

EncryptedStorageSpec == Init /\ [][EncryptedStorageNext]_vars

\* creation and deletion of collections on either kind of plugin, by one
\* application with two requests parked at a time, and an authentication
\* that can fail
CreateInputs ==
    [Inputs EXCEPT !.ids = {1, 2}, !.apps = {"A"}, !.values = {"V1"},
                   !.keys = {"k1"},
                   !.results = {"Succeeded", PluginFailure},
                   !.pairs = {PlainStorage, EncryptedStorage},
                   !.auths = {InAppAuthenticationPluginName},
                   !.uis = {InProcessInteraction},
                   !.faults = {"none", "db", "plugin", "compensate", "auth"}]

CreateNext ==
    \/ CreateDeviceLockCollection(CreateInputs)
    \/ CreateCustomLockCollection(CreateInputs)
    \/ DeleteCollection(CreateInputs)
    \/ SetCollectionSecret(CreateInputs)
    \/ AuthenticationCompleted(CreateInputs)
    \/ Restart

CreateSpec == Init /\ [][CreateNext]_vars

\* standalone secrets: one application, with relock timers
StandaloneInputs ==
    [Inputs EXCEPT !.apps = {"A"}, !.collections = {},
                   !.results = {"Succeeded", PluginFailure},
                   !.pairs = {PlainStorage, EncryptedStorage},
                   !.sems = {CustomLockKeepUnlocked, CustomLockTimoutRelock},
                   !.acms = {OwnerOnlyMode},
                   !.faults = Faults]

StandaloneNext ==
    \/ SetStandaloneDeviceLockSecret(StandaloneInputs)
    \/ SetStandaloneCustomLockSecret(StandaloneInputs)
    \/ GetStandaloneSecret(StandaloneInputs)
    \/ DeleteStandaloneSecret(StandaloneInputs)
    \/ AuthenticationCompleted(StandaloneInputs)
    \/ TimeoutRelockSecret
    \/ Restart

StandaloneSpec == Init /\ [][StandaloneNext]_vars

\* the request queue in front of the processor: a client has a collection
\* with a custom lock created, which is parked for the authentication until a
\* collection of the name exists; any number of requests is tracked
QueueInputs ==
    [requests |->
        {RequestData("A", "CreateCustomLockCollectionRequest",
                     <<"c1", "sto", "enc", DefaultAuthenticationPluginName,
                       CustomLockKeepUnlocked, 0, OwnerOnlyMode,
                       SystemUserInteractionMode, Empty>>, FALSE)},
     maxTracked |-> IdModulus + 1]
    @@ [Inputs EXCEPT !.ids = 0..MaxId, !.apps = {"A"}, !.keys = {"k1"},
                      !.faults = {"none"}]

QueueNext ==
    \/ HandleRequest(QueueInputs)
    \/ HandleRequests(QueueInputs)
    \/ AuthenticationCompleted(QueueInputs)

QueueSpec == Init /\ [][QueueNext]_vars

\* the same with at most MaxTracked requests tracked at a time: the client
\* creates and deletes the collection, the crypto helper reads a key stored
\* in it (the crypto helper's requests prevent user interaction), and the
\* authentication can fail
DispatchInputs ==
    [requests |->
        {RequestData("A", "CreateCustomLockCollectionRequest",
                     <<"c1", "sto", "enc", DefaultAuthenticationPluginName,
                       CustomLockKeepUnlocked, 0, OwnerOnlyMode,
                       SystemUserInteractionMode, Empty>>, FALSE),
         RequestData("A", "DeleteCollectionRequest",
                     <<"c1", PreventUserInteractionMode>>, FALSE),
         RequestData("A", "GetCollectionSecretRequest",
                     <<"c1", "s1", PreventUserInteractionMode, Empty>>, TRUE)},
     maxTracked |-> MaxTracked]
    @@ [Inputs EXCEPT !.ids = 0..MaxId, !.apps = {"A"}, !.keys = {"k1"},
                      !.results = {"Succeeded", PluginFailure},
                      !.faults = {"none", "auth"}]

DispatchNext ==
    \/ HandleRequest(DispatchInputs)
    \/ HandleRequests(DispatchInputs)
    \/ AuthenticationCompleted(DispatchInputs)

DispatchSpec == Init /\ [][DispatchNext]_vars

\* The dispatch with the scheduling of the event loop: the client creates and
\* deletes the collection; a queued handleRequests event is run, and the
\* yield timer does not elapse in a pass that has only skipped requests in
\* progress (a pass that yields has dispatched a request or sent a reply);
\* every authentication that was begun is completed by the authentication
\* plugin.
DispatchLiveInputs ==
    [DispatchInputs EXCEPT !.requests = {request \in @ : ~request.isSecretsCryptoRequest}]

DispatchLiveNext ==
    \/ HandleRequest(DispatchLiveInputs)
    \/ HandleRequests(DispatchLiveInputs)
    \/ AuthenticationCompleted(DispatchLiveInputs)

HandleRequestsProgress ==
    /\ HandleRequests(DispatchLiveInputs)
    /\ (pass'.yielded => (pass'.dispatched # <<>> \/ pass'.replies # <<>>))

DispatchFairness ==
    /\ WF_vars(HandleRequestsProgress)
    /\ \A id \in 0..MaxId :
           WF_vars(AuthenticationCompleted(DispatchLiveInputs) /\ id \notin authFlows')

DispatchLiveSpec == Init /\ [][DispatchLiveNext]_vars /\ DispatchFairness

\* The crypto subsystem stores, reads and deletes keys in a device-lock
\* collection that a client creates and deletes
CryptoInputs ==
    [requests |->
        {RequestData("A", "CreateDeviceLockCollectionRequest",
                     <<"c1", "sto", "enc", DeviceLockKeepUnlocked, OwnerOnlyMode>>, FALSE),
         RequestData("A", "DeleteCollectionRequest",
                     <<"c1", PreventUserInteractionMode>>, FALSE)},
     maxTracked |-> MaxTracked, cryptoIds |-> 1..MaxCryptoId]
    @@ [Inputs EXCEPT !.ids = 0..MaxId, !.apps = {"A"}, !.values = {"V1"},
                      !.faults = {"none"}]

CryptoNext ==
    \/ HandleRequest(CryptoInputs)
    \/ StoreKey(CryptoInputs)
    \/ StoredKey(CryptoInputs)
    \/ DeleteStoredKey(CryptoInputs)
    \/ HandleRequests(CryptoInputs)

CryptoSpec == Init /\ [][CryptoNext]_vars

\* collections on a storage plugin or on the encrypted storage plugin, which
\* is loaded with or without plugins of the other kinds under its name: one
\* application, no injected fault
UniformInit == QueueInit /\ ProcessorInitFrom(EncryptedStorageDirectories)

UniformInputs ==
    [Inputs EXCEPT !.apps = {"A"}, !.values = {"V1"}, !.keys = {"k1"},
                   !.pairs = {PlainStorage, EncryptedStorage},
                   !.auths = {InAppAuthenticationPluginName},
                   !.acms = {OwnerOnlyMode},
                   !.uis = {InProcessInteraction},
                   !.faults = {"none"}]

UniformNext ==
    \/ CreateDeviceLockCollection(UniformInputs)
    \/ CreateCustomLockCollection(UniformInputs)
    \/ DeleteCollection(UniformInputs)
    \/ SetCollectionSecret(UniformInputs)
    \/ GetCollectionSecret(UniformInputs)
    \/ AuthenticationCompleted(UniformInputs)

UniformSpec == UniformInit /\ [][UniformNext]_vars

\* parked requests of every kind resumed by a build of either argument
\* order, or finished by a failed authentication: one application, one
\* collection and one secret on a storage plugin or on an encrypted storage
\* plugin, standalone secrets, no injected fault
ResumeInputs ==
    [Inputs EXCEPT !.apps = {"A"}, !.values = {"V1"}, !.keys = {"k1"},
                   !.results = {"Succeeded", PluginFailure},
                   !.pairs = {PlainStorage, EncryptedStorage},
                   !.auths = {InAppAuthenticationPluginName},
                   !.acms = {OwnerOnlyMode},
                   !.uis = {InProcessInteraction},
                   !.faults = {"none"},
                   !.orders = ArgumentOrders]

ResumeNext ==
    \/ CreateCustomLockCollection(ResumeInputs)
    \/ SetCollectionSecret(ResumeInputs)
    \/ GetCollectionSecret(ResumeInputs)
    \/ DeleteCollectionSecret(ResumeInputs)
    \/ SetStandaloneCustomLockSecret(ResumeInputs)
    \/ GetStandaloneSecret(ResumeInputs)
    \/ AuthenticationCompleted(ResumeInputs)
    \/ Restart

ResumeSpec == Init /\ [][ResumeNext]_vars

\* timeout-relock collections on a storage plugin or on an encrypted storage
\* plugin and timeout-relock standalone secrets, with their relock timers:
\* one application, no injected fault
RelockInputs ==
    [Inputs EXCEPT !.apps = {"A"}, !.values = {"V1"}, !.keys = {"k1"},
                   !.pairs = {PlainStorage, EncryptedStorage},
                   !.sems = {CustomLockKeepUnlocked, CustomLockTimoutRelock},
                   !.acms = {OwnerOnlyMode},
                   !.faults = {"none"}]

RelockNext ==
    \/ CreateCustomLockCollection(RelockInputs)
    \/ DeleteCollection(RelockInputs)
    \/ SetCollectionSecret(RelockInputs)
    \/ GetCollectionSecret(RelockInputs)
    \/ SetStandaloneCustomLockSecret(RelockInputs)
    \/ GetStandaloneSecret(RelockInputs)
    \/ AuthenticationCompleted(RelockInputs)
    \/ TimeoutRelockCollection
    \/ TimeoutRelockSecret
    \/ Restart

RelockSpec == Init /\ [][RelockNext]_vars

\* access-relock collections on a storage plugin or on an encrypted storage
\* plugin and access-relock standalone secrets: one application, no injected
\* fault
AccessRelockInputs ==
    [Inputs EXCEPT !.apps = {"A"}, !.values = {"V1"}, !.keys = {"k1"},
                   !.pairs = {PlainStorage, EncryptedStorage},
                   !.sems = {CustomLockAccessRelock},
                   !.auths = {InAppAuthenticationPluginName},
                   !.acms = {OwnerOnlyMode},
                   !.uis = {InProcessInteraction},
                   !.faults = {"none"}]

AccessRelockNext ==
    \/ CreateCustomLockCollection(AccessRelockInputs)
    \/ DeleteCollection(AccessRelockInputs)
    \/ SetCollectionSecret(AccessRelockInputs)
    \/ GetCollectionSecret(AccessRelockInputs)
    \/ DeleteCollectionSecret(AccessRelockInputs)
    \/ SetStandaloneCustomLockSecret(AccessRelockInputs)
    \/ GetStandaloneSecret(AccessRelockInputs)
    \/ AuthenticationCompleted(AccessRelockInputs)
    \/ Restart

AccessRelockSpec == Init /\ [][AccessRelockNext]_vars

\* deletion of timeout-relock collections and standalone secrets on either
\* kind of plugin, with their relock timers and with plugin calls that fail:
\* one application
PurgeInputs ==
    [Inputs EXCEPT !.apps = {"A"}, !.values = {"V1"}, !.keys = {"k1"},
                   !.pairs = {PlainStorage, EncryptedStorage},
                   !.sems = {CustomLockTimoutRelock},
                   !.auths = {InAppAuthenticationPluginName},
                   !.acms = {OwnerOnlyMode},
                   !.uis = {InProcessInteraction},
                   !.faults = {"none", "plugin"}]

PurgeNext ==
    \/ CreateCustomLockCollection(PurgeInputs)
    \/ DeleteCollection(PurgeInputs)
    \/ SetCollectionSecret(PurgeInputs)
    \/ GetCollectionSecret(PurgeInputs)
    \/ SetStandaloneCustomLockSecret(PurgeInputs)
    \/ GetStandaloneSecret(PurgeInputs)
    \/ DeleteStandaloneSecret(PurgeInputs)
    \/ AuthenticationCompleted(PurgeInputs)
    \/ TimeoutRelockCollection
    \/ TimeoutRelockSecret

PurgeSpec == Init /\ [][PurgeNext]_vars

\* the crypto helpers store, read and delete a key in a custom-lock
\* collection that relocks on a timeout: the client creates the collection,
\* the relock timer fires
HelperInputs ==
    [requests |->
        {RequestData("A", "CreateCustomLockCollectionRequest",
                     <<"c1", "sto", "enc", DefaultAuthenticationPluginName,
                       CustomLockTimoutRelock, 0, OwnerOnlyMode,
                       SystemUserInteractionMode, Empty>>, FALSE)},
     maxTracked |-> MaxTracked, cryptoIds |-> 1..MaxCryptoId]
    @@ [Inputs EXCEPT !.ids = 0..MaxId, !.apps = {"A"}, !.values = {"V1"},
                      !.keys = {"k1"},
                      !.faults = {"none"}]

HelperNext ==
    \/ HandleRequest(HelperInputs)
    \/ StoreKey(HelperInputs)
    \/ StoredKey(HelperInputs)
    \/ DeleteStoredKey(HelperInputs)
    \/ HandleRequests(HelperInputs)
    \/ AuthenticationCompleted(HelperInputs)
    \/ TimeoutRelockCollection

HelperSpec == Init /\ [][HelperNext]_vars

\* standalone secrets with a custom lock only: two applications write, read
\* and delete a secret on the storage plugin, the relock timer fires, the
\* daemon is started again
UpsertInputs ==
    [Inputs EXCEPT !.collections = {}, !.keys = {"k1"},
                   !.pairs = {PlainStorage},
                   !.auths = {InAppAuthenticationPluginName},
                   !.sems = {CustomLockTimoutRelock},
                   !.acms = {OwnerOnlyMode},
                   !.uis = {InProcessInteraction},
                   !.faults = {"none"}]

UpsertNext ==
    \/ SetStandaloneCustomLockSecret(UpsertInputs)
    \/ GetStandaloneSecret(UpsertInputs)
    \/ DeleteStandaloneSecret(UpsertInputs)
    \/ AuthenticationCompleted(UpsertInputs)
    \/ TimeoutRelockSecret
    \/ Restart

UpsertSpec == Init /\ [][UpsertNext]_vars

\* plugin loading over every directory of at most MaxFiles plugin files: a
\* file holds a plugin of one of the four kinds or no secrets plugin, with an
\* empty name or one of two names; the daemon is started again over any such
\* directory, an application creates and deletes a collection
DiscoveredPlugins ==
    [kind : {"storage", "encryption", "encryptedStorage", "authentication", "other"},
     name : {Empty, "sto", "enc"}]

DiscoveredDirectories == UNION {[1..n -> DiscoveredPlugins] : n \in 0..MaxFiles}

LoadInit == QueueInit /\ ProcessorInitFrom(DiscoveredDirectories)

LoadInputs ==
    [Inputs EXCEPT !.apps = {"A"}, !.pairs = {PlainStorage, <<"sto", "sto">>},
                   !.acms = {OwnerOnlyMode}, !.faults = {"none"}]

\* the daemon is started again: the constructor of SecretsRequestQueue runs
\* loadPlugins over the plugin directory as it is then
LoadRestart ==
    /\ \E directory \in DiscoveredDirectories :
          LET registry == loadPlugins(directory, EmptyRegistry)
          IN  /\ m_storagePlugins' = registry.storage
              /\ m_encryptionPlugins' = registry.encryption
              /\ m_encryptedStoragePlugins' = registry.encryptedStorage
              /\ m_authenticationPlugins' = registry.authentication
    /\ SetProcessorState(RestartState(ProcessorState))
    /\ last' = [NoOperation EXCEPT !.op = "Restart"]
    /\ prev' = Previous
    /\ UNCHANGED queueVars

LoadNext ==
    \/ LoadRestart
    \/ CreateDeviceLockCollection(LoadInputs)
    \/ DeleteCollection(LoadInputs)

LoadSpec == LoadInit /\ [][LoadNext]_vars

\* the dispatch with an authentication plugin that can complete a flow inside
\* beginAuthentication: the client has a collection with a custom lock created
\* and deleted, every authentication succeeds
ReentrantInputs ==
    [requests |->
        {RequestData("A", "CreateCustomLockCollectionRequest",
                     <<"c1", "sto", "enc", DefaultAuthenticationPluginName,
                       CustomLockKeepUnlocked, 0, OwnerOnlyMode,
                       SystemUserInteractionMode, Empty>>, FALSE),
         RequestData("A", "DeleteCollectionRequest",
                     <<"c1", PreventUserInteractionMode>>, FALSE)},
     maxTracked |-> MaxTracked]
    @@ [Inputs EXCEPT !.ids = 0..MaxId, !.apps = {"A"}, !.keys = {"k1"},
                      !.faults = {"none", "reentrant"}]

ReentrantNext ==
    \/ HandleRequest(ReentrantInputs)
    \/ HandleRequests(ReentrantInputs)
    \/ AuthenticationCompleted(ReentrantInputs)

ReentrantSpec == Init /\ [][ReentrantNext]_vars

\* the dispatch with an authentication plugin that can signal the completion
\* of a flow more than once
RepeatInputs ==
    [requests |->
        {RequestData("A", "CreateCustomLockCollectionRequest",
                     <<"c1", "sto", "enc", DefaultAuthenticationPluginName,
                       CustomLockKeepUnlocked, 0, OwnerOnlyMode,
                       SystemUserInteractionMode, Empty>>, FALSE),
         RequestData("A", "DeleteCollectionRequest",
                     <<"c1", PreventUserInteractionMode>>, FALSE)},
     maxTracked |-> MaxTracked]
    @@ [Inputs EXCEPT !.ids = 0..MaxId, !.apps = {"A"}, !.keys = {"k1"},
                      !.results = {"Succeeded", PluginFailure},
                      !.faults = {"none"}]

RepeatNext ==
    \/ HandleRequest(RepeatInputs)
    \/ HandleRequests(RepeatInputs)
    \/ AuthenticationCompleted(RepeatInputs)
    \/ AuthenticationCompletedAgain(RepeatInputs)

RepeatSpec == Init /\ [][RepeatNext]_vars

\* the collection handlers called with the empty name and with spellings of
\* the reserved name
NameInputs ==
    [Inputs EXCEPT !.apps = {"A"}, !.values = {"V1"}, !.keys = {"k1"},
                   !.collections = {"c1", Empty, Standalone, "Standalone"},
                   !.pairs = {PlainStorage},
                   !.auths = {InAppAuthenticationPluginName},
                   !.acms = {OwnerOnlyMode},
                   !.uis = {InProcessInteraction},
                   !.faults = {"none", "plugin"}]

NameNext ==
    \/ CreateDeviceLockCollection(NameInputs)
    \/ CreateCustomLockCollection(NameInputs)
    \/ DeleteCollection(NameInputs)
    \/ SetCollectionSecret(NameInputs)
    \/ GetCollectionSecret(NameInputs)
    \/ AuthenticationCompleted(NameInputs)

NameSpec == Init /\ [][NameNext]_vars

(***************************************************************************)
(* Properties of the request queue (checked under QueueSpec)               *)
(***************************************************************************)
QueueFullError == "SecretsDaemonRequestQueueFullError"

\* C8: request-id uniqueness - in every reachable state no two tracked
\* requests have the same request id, also after the counter has wrapped.
C8_RequestIdUnique ==
    \A i, j \in 1..Len(m_requests) :
        i # j => m_requests[i].requestId # m_requests[j].requestId

\* the counter has wrapped and the latest enqueue skipped an id in use
C8_Witness ==
    /\ wrapped
    /\ Len(m_requests) >= 2
    /\ lastEnqueue.code = "Succeeded"
    /\ lastEnqueue.id # requestId
    /\ requestId \in lastEnqueue.inUseBefore

\* C9 as stated: of two tracked requests the one enqueued earlier has the
\* strictly smaller request id, the counter wrapping modulo the id space.
C9_OrderedAlways ==
    \A i, j \in 1..Len(m_requests) :
        i < j => m_requests[i].requestId < m_requests[j].requestId

\* C9 amended: as long as the id counter has not wrapped around, of two
\* tracked requests the one enqueued earlier has the strictly smaller id.
C9_OrderedBeforeWrap ==
    ~wrapped =>
        \A i, j \in 1..Len(m_requests) :
            i < j => m_requests[i].requestId < m_requests[j].requestId

\* two requests are tracked at once before the counter has wrapped
C9_Witness ==
    /\ ~wrapped
    /\ Len(m_requests) >= 2

\* C10: enqueue returns the queue-full error exactly when every id of the id
\* space is in use by a tracked request and succeeds with a free id
\* otherwise; a failed enqueue appends nothing, schedules no handler and
\* sets no delayed reply.
C10_QueueFullExactly ==
    [][HandleRequest(QueueInputs) =>
          /\ (lastEnqueue'.code = QueueFullError)
                 <=> (TrackedIds(m_requests) = 0..MaxId)
          /\ lastEnqueue'.code = "Succeeded" =>
                 /\ lastEnqueue'.id \notin TrackedIds(m_requests)
                 /\ Len(m_requests') = Len(m_requests) + 1
                 /\ SubSeq(m_requests', 1, Len(m_requests)) = m_requests
                 /\ m_requests'[Len(m_requests')].requestId = lastEnqueue'.id
                 /\ m_requests'[Len(m_requests')].status = RequestPending
          /\ lastEnqueue'.code = QueueFullError =>
                 /\ m_requests' = m_requests
                 /\ queuedHandleRequests' = queuedHandleRequests
                 /\ ~lastEnqueue'.delayedReply]_vars

(***************************************************************************)
(* Properties of the request processor                                     *)
(***************************************************************************)
SecretOperations ==
    {"SetCollectionSecret", "GetCollectionSecret", "DeleteCollectionSecret"}

\* C1: owner isolation - a Get, Set or Delete of a collection secret issued by
\* an application other than the owner recorded in the master row of the
\* collection ends in PermissionsError (OperationNotSupportedError when the
\* row is system-mediated), makes no plugin call and reads, writes and
\* removes nothing, also when the request was parked and resumed later.
C1_OwnerIsolation ==
    (/\ last.op \in SecretOperations
     /\ RowOwner(last.collection, last.secretName) \notin {Empty, last.app})
    => /\ last.code = IF RowAcm(last.collection, last.secretName) = SystemAccessControlMode
                      THEN "OperationNotSupportedError" ELSE "PermissionsError"
       /\ calls = <<>>
       /\ ~last.wrote
       /\ last.out = Empty

CreateOperations == {"CreateDeviceLockCollection", "CreateCustomLockCollection"}

\* C2: compensating delete - when CreateDeviceLockCollection, or the
\* continuation of CreateCustomLockCollection, ran for a name that had no
\* master row and did not succeed, and the compensating delete did not fail,
\* then the Collections table has no row of that name and no plugin holds a
\* collection of that name.
C2_CompensatingDelete ==
    (/\ last.op \in CreateOperations
     /\ last.op = "CreateCustomLockCollection" => last.resumed
     /\ ~last.hadRow
     /\ last.code # "Succeeded"
     /\ last.fault # "compensate")
    => /\ CollectionRows(ProcessorState, last.collection) = {}
       /\ last.collection \notin storageColls
       /\ last.collection \notin DOMAIN esColls

\* the plugin failed to create the collection of a resumed create
C2_Witness ==
    /\ last.op = "CreateCustomLockCollection"
    /\ last.resumed /\ last.authentication = "Succeeded"
    /\ ~last.hadRow
    /\ last.fault = "fault"
    /\ last.code = PluginFailure
    /\ \E i \in 1..Len(calls) : calls[i].op = "createCollection"
    /\ CollectionRows(ProcessorState, last.collection) = {}

\* C3: uniqueness - the Collections table has at most one row per collection
\* name and the Secrets table at most one row per (collection name, hashed
\* secret name); a continuation of CreateCustomLockCollection that runs after
\* a successful authentication when the name has a row by now fails with
\* CollectionAlreadyExistsError and changes nothing.
C3_Uniqueness ==
    /\ \A r1, r2 \in Collections : r1.name = r2.name => r1 = r2
    /\ \A r1, r2 \in Secrets :
          (r1.collection = r2.collection /\ r1.hashed = r2.hashed) => r1 = r2
    /\ (/\ last.op = "CreateCustomLockCollection"
        /\ last.authentication = "Succeeded"
        /\ last.hadRow)
       => (last.code = "CollectionAlreadyExistsError" /\ ~last.wrote)

\* the second of two parked creations of one name resumes after the first has
\* inserted the row (a custom-lock row is only ever inserted by a continuation)
C3_Witness ==
    /\ last.op = "CreateCustomLockCollection"
    /\ last.authentication = "Succeeded"
    /\ last.hadRow
    /\ last.code = "CollectionAlreadyExistsError"
    /\ CollectionRow(ProcessorState, last.collection).dev = 0
    /\ Secrets # {}

\* the latest operation is a Get, without an injected failure, of a secret
\* in a collection the caller owns, that directly follows a successful
\* operation op of the same caller on the same secret
GetFollows(op) ==
    /\ last.op = "GetCollectionSecret"
    /\ ~last.resumed
    /\ last.fault = "none"
    /\ RowOwner(last.collection, last.secretName) = last.app
    /\ prev.op = op
    /\ prev.app = last.app
    /\ prev.collection = last.collection
    /\ prev.secretName = last.secretName

\* C4: Set/Get round trip - when SetCollectionSecret(C,S,V) has succeeded and
\* C is unlocked, the GetCollectionSecret(C,S) of the same caller that
\* follows returns Succeeded with exactly V.
C4_SetGetRoundTrip ==
    (GetFollows("SetCollectionSecret") /\ last.unlocked)
    => (last.code = "Succeeded" /\ last.out = prev.secret)

\* C5: overwrite law - in an unlocked collection the caller owns,
\* Set(C,S,V1), Set(C,S,V2), Get(C,S) returns V2, and the Secrets table has
\* exactly one row for (C, hash(C,S)).
C5_OverwriteLaw ==
    (GetFollows("SetCollectionSecret") /\ prev.streak = 2 /\ last.unlocked)
    => /\ last.code = "Succeeded"
       /\ last.out = prev.secret
       /\ Cardinality(SecretRows(ProcessorState, last.collection,
              generateHashedSecretName(last.collection, last.secretName))) = 1

\* the latest operation is a GetStandaloneSecret, without an injected failure,
\* that directly follows a successful DeleteStandaloneSecret of the same
\* caller for the same secret
StandaloneGetFollowsDelete ==
    /\ last.op = "GetStandaloneSecret"
    /\ ~last.resumed
    /\ last.fault = "none"
    /\ prev.op = "DeleteStandaloneSecret"
    /\ prev.app = last.app
    /\ prev.secretName = last.secretName

\* C6: Delete then Get - the Get that follows a successful
\* DeleteCollectionSecret(C,S) or DeleteStandaloneSecret(S) of the same
\* caller fails with InvalidSecretError and returns no secret bytes.
C6_DeleteThenGet ==
    (GetFollows("DeleteCollectionSecret") \/ StandaloneGetFollowsDelete)
    => (last.code = "InvalidSecretError" /\ last.out = Empty)

\* the calls the latest request made to the plugin of a collection
CallsFor(collectionName) ==
    SelectSeq(calls, LAMBDA c : c.collection = collectionName)

KeyFailures == {"IncorrectAuthenticationKeyError", "SecretsPluginDecryptionError"}

\* the latest request ran a secret continuation on an encrypted storage
\* collection and returned one of the key failures
EncryptedStorageKeyFailure ==
    /\ last.op \in SecretOperations
    /\ last.code \in KeyFailures
    /\ last.hadRow
    /\ LET row == CollectionRow(ProcessorState, last.collection)
       IN  row.sto = row.enc

\* C7: re-lock on key failure - whenever a Get, Set or Delete continuation
\* against an encrypted storage collection returns
\* IncorrectAuthenticationKeyError or SecretsPluginDecryptionError, the last
\* plugin call made for that collection was set_encryption_key(collection,
\* empty), the plugin reports the collection locked afterwards, and the
\* request read, wrote and removed no secret.
C7_RelockOnKeyFailure ==
    EncryptedStorageKeyFailure
    => /\ CallsFor(last.collection) # <<>>
       /\ LET c == CallsFor(last.collection)[Len(CallsFor(last.collection))]
          IN  c.op = "setEncryptionKey" /\ c.arg = Empty
       /\ last.collection \in DOMAIN esColls
       /\ esColls[last.collection].locked
       /\ last.out = Empty
       /\ \A i \in 1..Len(calls) :
             calls[i].op \notin {"getSecret", "setSecret", "removeSecret"}


(***************************************************************************)
(* Properties of the dispatch of queued requests (DispatchSpec)            *)
(***************************************************************************)
\* the request ids of a list of requests, in the order of the list
Ids(requests) == [i \in 1..Len(requests) |-> requests[i].requestId]

\* the ids of the requests of a list that are in a status, in list order
IdsInStatus(requests, status) ==
    Ids(SelectSeq(requests, LAMBDA request : request.status = status))

\* the request with the id
RequestWithId(requests, id) ==
    requests[CHOOSE i \in 1..Len(requests) : requests[i].requestId = id]

\* the ids the replies of the latest step were sent for, in their order
RepliedIds(p) == [i \in 1..Len(p.replies) |-> p.replies[i].requestId]

SeqRange(seq) == {seq[i] : i \in 1..Len(seq)}

\* C11: dispatch order - handlePendingRequest is invoked for the requests in
\* the order of their enqueueing (the order of the list, to whose end a new
\* request is appended) and at most once for a request, also when a pass of
\* handleRequests yields: no request that was dispatched is behind one that
\* is still pending, a pass dispatches the first of the pending requests in
\* their order, a dispatched request never becomes pending again, and no step
\* reorders the requests that stay; a pass that yields removes only the
\* requests it has replied to and leaves the requests it has not reached as
\* they were.
C11_DispatchOrder ==
    /\ [](\A i, j \in 1..Len(m_requests) :
              (i < j /\ m_requests[j].status # RequestPending)
                  => m_requests[i].status # RequestPending)
    /\ [][/\ pass'.handled =>
                /\ Len(pass'.dispatched) <= Len(IdsInStatus(m_requests, RequestPending))
                /\ pass'.dispatched =
                       SubSeq(IdsInStatus(m_requests, RequestPending), 1, Len(pass'.dispatched))
                /\ Ids(m_requests') =
                       SelectSeq(Ids(m_requests),
                                 LAMBDA id : id \notin SeqRange(RepliedIds(pass')))
                /\ \A id \in TrackedIds(m_requests') :
                       RequestWithId(m_requests', id).status = RequestPending
                           => RequestWithId(m_requests', id) = RequestWithId(m_requests, id)
          /\ ~pass'.handled =>
                \/ Ids(m_requests') = Ids(m_requests)
                \/ /\ Len(m_requests') = Len(m_requests) + 1
                   /\ SubSeq(Ids(m_requests'), 1, Len(m_requests)) = Ids(m_requests)
          /\ \A id \in TrackedIds(m_requests) \cap TrackedIds(m_requests') :
                RequestWithId(m_requests, id).status # RequestPending
                    => RequestWithId(m_requests', id).status # RequestPending]_vars

\* a pass has dispatched a request and has yielded before it reached a
\* request that is still pending
C11_Witness ==
    /\ pass.handled
    /\ pass.yielded
    /\ Len(pass.dispatched) >= 1
    /\ \E i \in 1..Len(m_requests) : m_requests[i].status = RequestPending

\* C12: exactly one reply per request - in every step the requests that
\* leave the queue are exactly those a reply was sent for in that step (a
\* reply to the client's connection, or asynchronousCryptoRequestCompleted
\* for a request of the crypto helper), no two replies of a step are for the
\* same request, and every reply is for a request that was tracked; so a
\* request gets at most one reply, its record is removed with that reply and
\* in no other step, and no record is removed without a reply.
C12_ExactlyOneReply ==
    [][/\ SeqRange(RepliedIds(pass')) = TrackedIds(m_requests) \ TrackedIds(m_requests')
       /\ \A i, j \in 1..Len(pass'.replies) :
              i # j => pass'.replies[i].requestId # pass'.replies[j].requestId
       /\ \A i \in 1..Len(pass'.replies) :
              LET reply == pass'.replies[i]
              IN  /\ reply.requestId \in TrackedIds(m_requests)
                  /\ reply.channel =
                         IF RequestWithId(m_requests, reply.requestId).isSecretsCryptoRequest
                         THEN "asynchronousCryptoRequestCompleted" ELSE "connection"
       /\ Len(m_requests') = Cardinality(TrackedIds(m_requests'))]_vars

\* one pass has replied to a request that was finished after its
\* authentication and to a request that its handler completed at once
C12_Witness ==
    /\ pass.handled
    /\ \E i \in 1..Len(pass.replies) :
           pass.replies[i].requestId \notin SeqRange(pass.dispatched)
    /\ \E i \in 1..Len(pass.replies) :
           pass.replies[i].requestId \in SeqRange(pass.dispatched)

\* C13: Pending is never surfaced - no reply to a client's connection and no
\* asynchronousCryptoRequestCompleted call carries the result Pending, and a
\* request whose handler returned Pending (it was dispatched and no reply was
\* sent for it) is left in the queue in status RequestInProgress, parked
\* with its authentication under way.
C13_PendingNeverSurfaced ==
    /\ \A i \in 1..Len(pass.replies) : pass.replies[i].code # "Pending"
    /\ \A i \in 1..Len(pass.dispatched) :
           pass.dispatched[i] \notin SeqRange(RepliedIds(pass))
               => /\ pass.dispatched[i] \in TrackedIds(m_requests)
                  /\ RequestWithId(m_requests, pass.dispatched[i]).status = RequestInProgress
                  /\ pass.dispatched[i] \in DOMAIN m_pendingRequests
                  /\ pass.dispatched[i] \in authFlows

\* a pass has dispatched a request whose handler returned Pending and has
\* sent a reply for another request
C13_Witness ==
    /\ pass.handled
    /\ Len(pass.replies) >= 1
    /\ \E i \in 1..Len(pass.dispatched) :
           pass.dispatched[i] \notin SeqRange(RepliedIds(pass))

\* C14: eventual reply - when the queued handleRequests events are run fairly
\* and every authentication that was begun is completed, every request that
\* was accepted into the queue eventually gets its reply and has left the
\* queue.
C14_EventualReply ==
    \A id \in 0..MaxId :
        (id \in TrackedIds(m_requests))
            ~> (id \in SeqRange(RepliedIds(pass)) /\ id \notin TrackedIds(m_requests))

\* the last tracked request was parked for its authentication and has now
\* got the failure of the authentication as its reply
C14_Witness ==
    /\ pass.handled
    /\ m_requests = <<>>
    /\ \E i \in 1..Len(pass.replies) :
           /\ pass.replies[i].requestId \notin SeqRange(pass.dispatched)
           /\ pass.replies[i].code = PluginFailure

(***************************************************************************)
(* Properties of the unlock-or-park protocol and of parked requests        *)
(***************************************************************************)
InteractionInputs == {PreventInteraction, SystemInteraction, InProcessInteraction}

UnlockOrParkErrors ==
    {"CollectionIsLockedError", "OperationRequiresUserInteraction",
     "OperationRequiresInProcessUserInteraction"}

\* the outcome the unlock-or-park protocol decides for a locked entity with
\* the master row, in the order of the protocol
UnlockOrParkOutcome(row, ui) ==
    IF row.dev = 1
    THEN "CollectionIsLockedError"
    ELSE IF ui[1] = PreventUserInteractionMode
    THEN "OperationRequiresUserInteraction"
    ELSE IF authenticationType(row.auth) = ApplicationSpecificAuthentication
            /\ (ui[1] # InProcessUserInteractionMode \/ ui[2] = Empty)
    THEN "OperationRequiresInProcessUserInteraction"
    ELSE "Pending"

\* the return r of a request with the id on an entity with the master row
\* follows the protocol: a locked entity gets the outcome of the protocol
\* (Pending with the authentication begun), an unlocked one none of its errors
FollowsUnlockOrPark(r, id, row, ui, unlocked) ==
    IF unlocked
    THEN r.code \notin UnlockOrParkErrors
    ELSE /\ r.code = UnlockOrParkOutcome(row, ui)
         /\ r.code = "Pending" => (id \in r.S.authFlows /\ id \in DOMAIN r.S.m_pendingRequests)

\* the existing collections and standalone secrets the application owns
OwnedCollections(app) ==
    {row \in Collections : row.name # Standalone /\ row.app = app /\ row.acm = OwnerOnlyMode}
OwnedStandaloneSecrets(app, names) ==
    {sn \in names : RowOf(Standalone, sn) = {[app |-> app, acm |-> OwnerOnlyMode]}}

\* C15: unlock-or-park precedence - GetCollectionSecret, SetCollectionSecret,
\* DeleteCollectionSecret and GetStandaloneSecret on an existing entity the
\* caller owns that has no usable authentication key return, in this order,
\* CollectionIsLockedError for a device-lock entity, else
\* OperationRequiresUserInteraction when user interaction is prevented, else
\* OperationRequiresInProcessUserInteraction for an application-specific
\* authentication plugin without in-process interaction, else Pending with
\* the authentication begun; on an unlocked entity none of the three errors.
C15_UnlockOrParkPrecedence ==
    \A app \in Inputs.apps, id \in Inputs.ids \ authFlows, sn \in Inputs.secrets,
       v \in Inputs.values, ui \in InteractionInputs :
        /\ \A row \in OwnedCollections(app) :
              LET unlocked == CollectionUnlocked(row.name)
                  S == ProcessorState
              IN  /\ FollowsUnlockOrPark(
                         getCollectionSecret(S, app, id, row.name, sn, ui[1], ui[2], "none"),
                         id, row, ui, unlocked)
                  /\ FollowsUnlockOrPark(
                         setCollectionSecret(S, app, id, row.name, sn, v, ui[1], ui[2], "none"),
                         id, row, ui, unlocked)
                  /\ FollowsUnlockOrPark(
                         deleteCollectionSecret(S, app, id, row.name, sn, ui[1], ui[2], "none"),
                         id, row, ui, unlocked)
        /\ \A name \in OwnedStandaloneSecrets(app, Inputs.secrets) :
              LET hashed == generateHashedSecretName(Standalone, name)
                  row == SecretRow(ProcessorState, Standalone, hashed)
              IN  FollowsUnlockOrPark(
                      getStandaloneSecret(ProcessorState, app, id, name, ui[1], ui[2], "none"),
                      id, row, ui, hashed \in DOMAIN m_standaloneSecretAuthenticationKeys)

ValidationErrors ==
    {"InvalidCollectionError", "InvalidSecretError", "InvalidExtensionPluginError",
     "CollectionAlreadyExistsError", "PermissionsError", "OperationNotSupportedError",
     "CollectionIsLockedError", "OperationRequiresUserInteraction",
     "OperationRequiresInProcessUserInteraction"}

EntryPoints ==
    {"CreateDeviceLockCollection", "CreateCustomLockCollection", "DeleteCollection",
     "SetCollectionSecret", "SetStandaloneDeviceLockSecret",
     "SetStandaloneCustomLockSecret", "GetCollectionSecret", "GetStandaloneSecret",
     "DeleteCollectionSecret", "DeleteStandaloneSecret"}

\* the step is the call of an entry point that returns a validation error
ValidationErrorReturned ==
    /\ last'.op \in EntryPoints
    /\ ~last'.resumed
    /\ last'.code \in ValidationErrors

ResumedBySuccess == last.resumed /\ last.authentication = "Succeeded"

\* C17: a successful authentication_completed for a parked request of any of
\* the six kinds hands the continuation the parameters the request was
\* parked with, in the order they were stored, and never produces the
\* internal-error (UnknownError) result.
C17_ParkAndResume ==
    ResumedBySuccess => (last.code # "UnknownError" /\ last.taken = last.parked)

\* the step is an authenticationCompleted with a result other than
\* Succeeded: it ends an authentication flow
AuthenticationFailed ==
    /\ authFlows' # authFlows
    /\ last'.resumed
    /\ last'.authentication # "Succeeded"

\* C18: when authenticationCompleted(R, result, key) arrives with a result
\* other than Succeeded, no continuation runs (the parked request is not
\* taken and no plugin is called), the master tables, the plugin storage and
\* the key caches are unchanged, and request R is finished with exactly that
\* result and an empty secret.
C18_AuthenticationFailurePassThrough ==
    [][AuthenticationFailed
       => /\ calls' = <<>>
          /\ UNCHANGED m_pendingRequests
          /\ UNCHANGED <<Collections, Secrets>>
          /\ UNCHANGED <<storageColls, storageData, esColls, esData>>
          /\ UNCHANGED <<m_collectionAuthenticationKeys,
                         m_standaloneSecretAuthenticationKeys>>
          /\ \A id \in authFlows \ authFlows' :
                 \E i \in 1..Len(m_requests') :
                     /\ m_requests'[i].requestId = id
                     /\ m_requests[i].status = RequestInProgress
                     /\ m_requests'[i].status = RequestFinished
                     /\ m_requests'[i].outParams = <<last'.authentication, Empty>>]_vars

\* a parked create was finished with the failure of its authentication while
\* the collection of another create exists
C18_Witness ==
    /\ last.resumed
    /\ last.authentication = PluginFailure
    /\ Collections # {StandaloneCollectionRow}
    /\ \E i \in 1..Len(m_requests) :
           /\ m_requests[i].status = RequestFinished
           /\ m_requests[i].outParams = <<PluginFailure, Empty>>

\* the relock timer of the collection last.collection has just fired
CollectionTimerFired == last.op = "timeoutRelockCollection"

\* the relock timer of the standalone secret last.secretName has just fired
SecretTimerFired == last.op = "timeoutRelockSecret"

\* C19: when the relock timer of a timeout-relock collection or of a
\* timeout-relock standalone secret has fired, the key cache holds no entry
\* for the entity (m_collectionAuthenticationKeys for the collection name,
\* m_standaloneSecretAuthenticationKeys for the hashed secret name) and the
\* timer table does not hold the timer.
C19_TimerFireDropsKey ==
    /\ CollectionTimerFired
       => /\ last.collection \notin DOMAIN m_collectionAuthenticationKeys
          /\ last.collection \notin m_collectionLockTimers
    /\ SecretTimerFired
       => /\ generateHashedSecretName(Standalone, last.secretName)
                 \notin DOMAIN m_standaloneSecretAuthenticationKeys
          /\ last.secretName \notin m_standaloneSecretLockTimers

\* the relock timer of a timeout-relock collection has fired right after a
\* secret of the collection was read successfully
ReadThenRelocked ==
    /\ CollectionTimerFired
    /\ last.out # Empty
    /\ CollectionRow(ProcessorState, last.collection).sem = CustomLockTimoutRelock

\* GetCollectionSecret of the secret read before, by its reader, without user
\* interaction
GetWithoutInteraction ==
    getCollectionSecret(ProcessorState, last.app, NextRequestId(RelockInputs.ids),
                        last.collection, last.secretName,
                        PreventUserInteractionMode, Empty, "none")

\* C20: once the relock timer of a timeout-relock collection (on a storage
\* plugin or on an encrypted storage plugin) that was read successfully has
\* fired, a GetCollectionSecret that supplies no user interaction does not
\* return the secret and returns CollectionIsLockedError.
C20_RelockOutcome ==
    ReadThenRelocked
    => /\ GetWithoutInteraction.secret = Empty
       /\ GetWithoutInteraction.code = "CollectionIsLockedError"


(***************************************************************************)
(* Properties of the helpers of the crypto subsystem                       *)
(***************************************************************************)
\* the crypto api call type of the helper that makes requests of a type
HelperRequestType(requestType) ==
    IF requestType = "SetCollectionSecretRequest" THEN "StoreKeyCryptoApiHelperRequest"
    ELSE IF requestType = "GetCollectionSecretRequest" THEN "StoredKeyCryptoApiHelperRequest"
    ELSE "DeleteStoredKeyCryptoApiHelperRequest"

\* the completion signal of the helper that makes requests of a type
CompletionSignal(requestType, cryptoRequestId, result, outputs) ==
    IF requestType = "SetCollectionSecretRequest"
    THEN [signal |-> "storeKeyCompleted", cryptoRequestId |-> cryptoRequestId,
          result |-> result, serialisedKey |-> Empty]
    ELSE IF requestType = "GetCollectionSecretRequest"
    THEN [signal |-> "storedKeyCompleted", cryptoRequestId |-> cryptoRequestId,
          result |-> result, serialisedKey |-> Param(outputs, 1, Empty)]
    ELSE [signal |-> "deleteStoredKeyCompleted", cryptoRequestId |-> cryptoRequestId,
          result |-> result, serialisedKey |-> Empty]

\* every tracked request of a helper has its crypto request id recorded with
\* the call type of the helper
HelperRequestsRecorded ==
    \A i \in 1..Len(m_requests) :
        m_requests[i].isSecretsCryptoRequest
        => /\ m_requests[i].cryptoRequestId \in DOMAIN m_cryptoApiHelperRequests
           /\ m_cryptoApiHelperRequests[m_requests[i].cryptoRequestId]
                  = HelperRequestType(m_requests[i].type)

\* the step completes requests of helpers and emits for each of them the one
\* signal of its kind, with its crypto request id and its result
CompletionsEmitted ==
    \A k \in 1..Len(pass'.replies) :
        LET reply == pass'.replies[k]
            request == RequestWithId(m_requests, reply.requestId)
        IN  reply.channel = "asynchronousCryptoRequestCompleted"
            => /\ Cardinality({e \in 1..Len(pass'.emitted) :
                      pass'.emitted[e].cryptoRequestId = reply.cryptoRequestId}) = 1
               /\ \E e \in 1..Len(pass'.emitted) :
                      pass'.emitted[e] = CompletionSignal(request.type, reply.cryptoRequestId,
                                                          reply.code, reply.outputs)

\* C21: after a store-key, retrieve-key or delete-stored-key helper call whose
\* request was enqueued, the crypto request id is recorded with the kind of
\* the helper, and the step in which the request completes emits exactly one
\* completion signal of that kind (storeKeyCompleted, storedKeyCompleted with
\* the key bytes, deleteStoredKeyCompleted) with the crypto request id and the
\* result of the request.  (That the request completes at all is the eventual
\* reply of the queue.)
C21_CryptoCompletionEvents ==
    [][HelperRequestsRecorded' /\ (pass'.handled => CompletionsEmitted)]_vars


(***************************************************************************)
(* Properties of plugin failures and of the deletion of collections        *)
(***************************************************************************)
\* the plugin operation that carries out a mutating request
MutatingPluginOperation(op) ==
    IF op \in {"CreateDeviceLockCollection", "CreateCustomLockCollection"}
    THEN "createCollection"
    ELSE IF op = "DeleteCollection" THEN "removeCollection"
    ELSE IF op \in {"SetCollectionSecret", "SetStandaloneDeviceLockSecret",
                    "SetStandaloneCustomLockSecret"}
    THEN "setSecret"
    ELSE IF op \in {"DeleteCollectionSecret", "DeleteStandaloneSecret"} THEN "removeSecret"
    ELSE Empty

\* the failed calls of the plugin operation of the latest request
FailedMutatingCalls ==
    {i \in 1..Len(calls) : /\ calls[i].op = MutatingPluginOperation(last.op)
                           /\ calls[i].code # "Succeeded"}

\* C22: whenever the plugin operation of a mutating request fails
\* (createCollection, removeCollection, setSecret, removeSecret), the result
\* of the request is not Succeeded and is that plugin failure (when the
\* compensating delete of the master row fails as well, the result is the
\* database error that reports both); when removeSecret fails in
\* DeleteStandaloneSecret, the Secrets row of the secret stays.
C22_PluginFailuresSurfaced ==
    \A i \in FailedMutatingCalls :
        /\ last.code # "Succeeded"
        /\ last.fault # "compensate" => last.code = calls[i].code
        /\ last.op = "DeleteStandaloneSecret"
           => SecretRows(ProcessorState, Standalone,
                         generateHashedSecretName(Standalone, last.secretName)) # {}

\* the step is a DeleteCollection of a collection that an application other
\* than the caller created in owner-only mode
ForeignDeleteCollection ==
    /\ last'.op = "DeleteCollection"
    /\ \E row \in CollectionRows(ProcessorState, last'.collection) :
           row.acm = OwnerOnlyMode /\ row.app # last'.app

\* C23: a DeleteCollection issued by an application other than the one that
\* created the collection in owner-only mode removes neither the master row
\* nor the collection in the plugin nor the cached key of the collection.
C23_OwnerOnlyDeletion ==
    [][ForeignDeleteCollection
       => LET c == last'.collection
          IN  /\ {row \in Collections' : row.name = c} = {row \in Collections : row.name = c}
              /\ (c \in storageColls) = (c \in storageColls')
              /\ (c \in DOMAIN esColls) = (c \in DOMAIN esColls')
              /\ c \in DOMAIN m_collectionAuthenticationKeys
                 => /\ c \in DOMAIN m_collectionAuthenticationKeys'
                    /\ m_collectionAuthenticationKeys'[c] = m_collectionAuthenticationKeys[c]]_vars


(***************************************************************************)
(* Properties of collections on an encrypted storage plugin                *)
(***************************************************************************)
\* the collection has a row whose storage and encryption plugin are both name
OnEncryptedStorage(collectionName, name) ==
    \E row \in CollectionRows(ProcessorState, collectionName) :
        row.sto = name /\ row.enc = name

\* a device-lock collection is created on the encrypted storage plugin name,
\* a secret is set in it and read back
DeviceLockRoundTrip(name) ==
    LET created == createDeviceLockCollection(ProcessorState, "A", "c1", name, name,
                                              DeviceLockKeepUnlocked, OwnerOnlyMode, "none")
        written == setCollectionSecret(created.S, "A", NextRequestId(UniformInputs.ids),
                                       "c1", "s1", "V1", PreventUserInteractionMode, Empty,
                                       "none")
        read == getCollectionSecret(written.S, "A", NextRequestId(UniformInputs.ids),
                                    "c1", "s1", PreventUserInteractionMode, Empty, "none")
    IN  [created |-> created.code, written |-> written.code, read |-> read.code,
         secret |-> read.secret]

\* C24: when the storage and the encryption plugin name are equal and name a
\* loaded encrypted storage plugin, CreateDeviceLockCollection,
\* CreateCustomLockCollection and DeleteCollection do not return
\* InvalidExtensionPluginError, whether or not the name is also loaded as a
\* storage or an encryption plugin, and creating such a collection, setting a
\* secret in it and getting it back succeeds.
C24_EncryptedStorageAccepted ==
    \A name \in m_encryptedStoragePlugins :
        /\ createDeviceLockCollection(ProcessorState, "A", "c1", name, name,
                                      DeviceLockKeepUnlocked, OwnerOnlyMode, "none").code
               # "InvalidExtensionPluginError"
        /\ createCustomLockCollection(ProcessorState, "A", NextRequestId(UniformInputs.ids),
                                      "c1", name, name, InAppAuthenticationPluginName,
                                      CustomLockKeepUnlocked, OwnerOnlyMode,
                                      InProcessUserInteractionMode, "ui", "none").code
               # "InvalidExtensionPluginError"
        /\ OnEncryptedStorage("c1", name)
           => deleteCollection(ProcessorState, "A", "c1", "none").code
                  # "InvalidExtensionPluginError"
        /\ CollectionRows(ProcessorState, "c1") = {}
           => DeviceLockRoundTrip(name) = [created |-> "Succeeded", written |-> "Succeeded",
                                           read |-> "Succeeded", secret |-> "V1"]


(***************************************************************************)
(* Properties of access-relock entities                                    *)
(***************************************************************************)
\* the latest operation is a successfully completed access to a secret of an
\* access-relock collection
AccessRelockCollectionAccessed ==
    /\ last.op \in {"SetCollectionSecret", "GetCollectionSecret", "DeleteCollectionSecret"}
    /\ last.code = "Succeeded"
    /\ \E row \in CollectionRows(ProcessorState, last.collection) :
           row.dev = 0 /\ row.sem = CustomLockAccessRelock

\* the latest operation is a successfully completed access to an
\* access-relock standalone secret
AccessRelockSecretAccessed ==
    /\ last.op \in {"SetStandaloneCustomLockSecret", "GetStandaloneSecret"}
    /\ last.code = "Succeeded"
    /\ \E row \in SecretRows(ProcessorState, Standalone,
                             generateHashedSecretName(Standalone, last.secretName)) :
           row.sem = CustomLockAccessRelock

\* C25: after every successfully completed access to a custom-lock collection
\* or standalone secret whose unlock semantic is access-relock the entity is
\* locked again: the key cache holds no entry for it and an encrypted storage
\* plugin reports the collection locked.
C25_AccessRelock ==
    /\ AccessRelockCollectionAccessed
       => /\ last.collection \notin DOMAIN m_collectionAuthenticationKeys
          /\ last.collection \in DOMAIN esColls => esColls[last.collection].locked
    /\ AccessRelockSecretAccessed
       => generateHashedSecretName(Standalone, last.secretName)
              \notin DOMAIN m_standaloneSecretAuthenticationKeys

(***************************************************************************)
(* Master table before plugin storage                                      *)
(***************************************************************************)
\* collections and secret payloads held by the plugins
PluginCollections == storageColls \cup DOMAIN esColls
PluginPayloads == DOMAIN storageData \cup DOMAIN esData
OrphanPluginCollections ==
    {c \in PluginCollections : CollectionRows(ProcessorState, c) = {}}
OrphanPluginPayloads ==
    {k \in PluginPayloads : SecretRows(ProcessorState, k[1], k[2]) = {}}
\* metadata rows without plugin data
OrphanCollectionRows ==
    {r \in Collections : r.name # Standalone /\ r.name \notin PluginCollections}
OrphanSecretRows ==
    {r \in Secrets : <<r.collection, r.hashed>> \notin PluginPayloads}

\* C26: in every reachable state every collection of the plugin storage has
\* a row in Collections and every secret payload of the plugin storage has a
\* row in Secrets.  The states between the master transaction and the plugin
\* call are among the reachable states: the state after the insert of create
\* and set is the state a failed plugin call with a failed compensating
\* delete leaves, the state after the plugin removal of delete is the state a
\* failed master delete leaves.
C26_MasterBeforePlugin ==
    /\ OrphanPluginCollections = {}
    /\ OrphanPluginPayloads = {}

\* a secret row without payload next to a collection the plugin holds: the
\* state between the insert of set and its plugin call
C26_Witness ==
    /\ last.op = "SetCollectionSecret"
    /\ last.fault = "compensate"
    /\ OrphanSecretRows # {}
    /\ PluginCollections # {}
    /\ PluginPayloads = {}

(***************************************************************************)
(* Compensation of a new secret                                            *)
(***************************************************************************)
\* the latest operation is a SetCollectionSecret (direct or resumed) that
\* ended with a result other than success; a failed compensating delete (a
\* second, database fault) and the end of the daemon are not such results
SetCollectionSecretFailed ==
    /\ last.op = "SetCollectionSecret"
    /\ last.code \notin {"Succeeded", "Pending", "Crash"}
    /\ last.fault # "compensate"

\* the rows of a table for the secret of the latest operation
LastSecretRows(table) ==
    {r \in table : /\ r.collection = last'.collection
                   /\ r.hashed = generateHashedSecretName(last'.collection,
                                                          last'.secretName)}

\* C27: when a SetCollectionSecret, direct or resumed, ends with a result
\* other than success, a secret that had no Secrets row before the request
\* has none after it, and the row of a secret that existed is unchanged.
C27_NewSecretCompensated ==
    [][SetCollectionSecretFailed' => LastSecretRows(Secrets') = LastSecretRows(Secrets)]_vars

(***************************************************************************)
(* Deletion and the caches (checked under PurgeSpec)                       *)
(***************************************************************************)
\* the plugin removal of the latest operation failed
RemovalFailed ==
    \E i \in 1..Len(calls) :
        /\ calls[i].op \in {"removeCollection", "removeSecret"}
        /\ calls[i].code # "Succeeded"

\* the latest operation is a deletion that succeeded
CollectionDeleted ==
    /\ last.op = "DeleteCollection"
    /\ last.code = "Succeeded"
StandaloneSecretDeleted ==
    /\ last.op = "DeleteStandaloneSecret"
    /\ last.code = "Succeeded"
    /\ ~RemovalFailed

\* C28: after a successful DeleteCollection the key cache and the timer
\* table hold no entry for the collection; after a successful
\* DeleteStandaloneSecret (one whose plugin removal did not fail) the
\* standalone key cache and the standalone timer table hold no entry for the
\* secret; when the plugin removal of either fails, the master rows, the
\* caches and the timers are unchanged.
C28_DeletePurgesCaches ==
    [][/\ CollectionDeleted'
          => /\ last'.collection \notin DOMAIN m_collectionAuthenticationKeys'
             /\ last'.collection \notin m_collectionLockTimers'
       /\ StandaloneSecretDeleted'
          => /\ generateHashedSecretName(Standalone, last'.secretName)
                    \notin DOMAIN m_standaloneSecretAuthenticationKeys'
             /\ last'.secretName \notin DOMAIN m_standaloneSecretAuthenticationKeys'
             /\ last'.secretName \notin m_standaloneSecretLockTimers'
       /\ (last'.op \in {"DeleteCollection", "DeleteStandaloneSecret"} /\ RemovalFailed')
          => UNCHANGED <<Collections, Secrets, m_collectionAuthenticationKeys,
                         m_standaloneSecretAuthenticationKeys,
                         m_collectionLockTimers, m_standaloneSecretLockTimers>>]_vars

(***************************************************************************)
(* The table of parked requests (checked under DispatchSpec)               *)
(***************************************************************************)
\* the ids of the authentication flows whose completion this step processes
CompletedFlows == authFlows \ authFlows'

\* the requests the queue tracks in state InProgress
InProgressIds(requests) == SeqRange(IdsInStatus(requests, RequestInProgress))

\* C29: once authenticationCompleted has been processed for a request id,
\* with success or with failure, m_pendingRequests holds no entry for the
\* id, and in every reachable state each key of m_pendingRequests is the id
\* of a request the queue tracks in state InProgress.
C29_PendingRequestsHygiene ==
    [][/\ \A id \in CompletedFlows : id \notin DOMAIN m_pendingRequests'
       /\ DOMAIN m_pendingRequests' \subseteq InProgressIds(m_requests')]_vars

(***************************************************************************)
(* Relock timers are armed once (checked under RelockSpec)                 *)
(***************************************************************************)
\* the relock timers the latest operation started for a collection and for a
\* standalone secret
CollectionTimerStarts(collectionName) ==
    {i \in 1..Len(calls) : /\ calls[i].op = "QTimer::start"
                           /\ calls[i].collection = collectionName
                           /\ calls[i].arg = Empty}
SecretTimerStarts(secretName) ==
    {i \in 1..Len(calls) : /\ calls[i].op = "QTimer::start"
                           /\ calls[i].collection = Standalone
                           /\ calls[i].arg = secretName}

\* C30: the timer table holds at most one relock timer for a collection or a
\* standalone secret, the one that was started when the name was filed, and
\* no operation starts a timer (a second one, or the armed one again) for a
\* name whose timer is armed: a read while the timer is armed leaves the
\* table and the armed timer as they are, so the second read inside the
\* window leaves the timer state of the first.  (The timers are the entries
\* of the timer tables: a timer that a deletion took out of its table finds
\* no entry when it fires and relocks nothing.)
C30_TimerIdempotence ==
    [][/\ \A c \in RelockInputs.collections :
            /\ Cardinality(CollectionTimerStarts(c)') <= 1
            /\ c \in m_collectionLockTimers
               => CollectionTimerStarts(c)' = {}
            /\ c \in m_collectionLockTimers' \ m_collectionLockTimers
               => Cardinality(CollectionTimerStarts(c)') = 1
            /\ (c \in m_collectionLockTimers /\ last'.op = "GetCollectionSecret")
               => UNCHANGED <<m_collectionLockTimers, m_standaloneSecretLockTimers>>
       /\ \A sn \in RelockInputs.secrets :
            /\ Cardinality(SecretTimerStarts(sn)') <= 1
            /\ sn \in m_standaloneSecretLockTimers
               => SecretTimerStarts(sn)' = {}
            /\ sn \in m_standaloneSecretLockTimers' \ m_standaloneSecretLockTimers
               => Cardinality(SecretTimerStarts(sn)') = 1
            /\ (sn \in m_standaloneSecretLockTimers /\ last'.op = "GetStandaloneSecret")
               => UNCHANGED <<m_collectionLockTimers, m_standaloneSecretLockTimers>>]_vars

\* a secret of a timeout-relock collection has been read while the relock
\* timer of the collection was armed: the read started no timer
C30_Witness ==
    /\ last.op = "GetCollectionSecret"
    /\ last.code = "Succeeded"
    /\ last.collection \in m_collectionLockTimers
    /\ CollectionTimerStarts(last.collection) = {}

(***************************************************************************)
(* Arming of the relock timers (checked under RelockSpec)                  *)
(***************************************************************************)
\* the collection has a row with the timeout-relock semantic
IsTimeoutRelockCollection(c) ==
    /\ CollectionRows(ProcessorState, c) # {}
    /\ CollectionRow(ProcessorState, c).sem = CustomLockTimoutRelock

\* the latest operation read or wrote a secret of the collection, or created
\* the collection, and succeeded
CollectionAccessSucceeded(c) ==
    /\ last.op \in {"CreateCustomLockCollection", "SetCollectionSecret",
                    "GetCollectionSecret"}
    /\ last.collection = c
    /\ last.code = "Succeeded"

\* C31: a relock timer is started only by an operation that succeeds, a
\* successful create, write or read of a timeout-relock collection leaves a
\* timer armed, and in every reachable state a timeout-relock collection
\* whose authentication key is cached has an armed timer.
C31_TimerArmingFollowsSuccess ==
    [][\A c \in RelockInputs.collections :
           /\ CollectionTimerStarts(c)' # {} => last'.code = "Succeeded"
           /\ (IsTimeoutRelockCollection(c)' /\ CollectionAccessSucceeded(c)')
              => c \in m_collectionLockTimers'
           /\ (IsTimeoutRelockCollection(c)' /\ c \in DOMAIN m_collectionAuthenticationKeys')
              => c \in m_collectionLockTimers']_vars

(***************************************************************************)
(* The states of a collection                                              *)
(***************************************************************************)
\* Absent: no master row, no cached key, no timer
CollectionAbsent(c) ==
    /\ CollectionRows(ProcessorState, c) = {}
    /\ c \notin DOMAIN m_collectionAuthenticationKeys
    /\ c \notin m_collectionLockTimers
\* Present-Locked: master row, no cached key
CollectionPresentLocked(c) ==
    /\ CollectionRows(ProcessorState, c) # {}
    /\ c \notin DOMAIN m_collectionAuthenticationKeys
\* Present-Unlocked: master row and cached key
CollectionPresentUnlocked(c) ==
    /\ CollectionRows(ProcessorState, c) # {}
    /\ c \in DOMAIN m_collectionAuthenticationKeys

\* C32: in every reachable state each collection is Absent, Present-Locked
\* or Present-Unlocked: the key cache and the timer table hold no entry for a
\* collection name that has no row in Collections.
C32_CollectionStates ==
    \A c \in Inputs.collections :
        \/ CollectionAbsent(c)
        \/ CollectionPresentLocked(c)
        \/ CollectionPresentUnlocked(c)


(***************************************************************************)
(* Validity of collection names (checked under NameSpec)                   *)
(***************************************************************************)
\* the rows of Collections whose name is a spelling of the reserved name
ReservedRows == {row \in Collections : IsReservedCollectionName(row.name)}

\* the latest operation is a create or a delete of a collection called with
\* the empty name or a spelling of the reserved name
InvalidNameRequest ==
    /\ last.op \in {"CreateDeviceLockCollection", "CreateCustomLockCollection",
                    "DeleteCollection"}
    /\ (last.collection = Empty \/ IsReservedCollectionName(last.collection))

\* C33: collection-name validity - in every reachable state the only row of
\* Collections whose name is "standalone" in any spelling is the reserved row
\* of the start, no row has the empty name, and a create or delete of a
\* collection with the empty or the reserved name ends with
\* InvalidCollectionError and changes nothing.
C33_CollectionNameValidity ==
    [][/\ ReservedRows' = {StandaloneCollectionRow}
       /\ \A row \in Collections' : row.name # Empty
       /\ InvalidNameRequest' =>
              /\ last'.code = "InvalidCollectionError"
              /\ ProcessorState' = ProcessorState]_vars


(***************************************************************************)
(* Requests of the crypto helpers (checked under HelperSpec)               *)
(***************************************************************************)
\* the requests of the crypto helpers that the pass of the step dispatches
HelperRequestsDispatched ==
    {i \in 1..Len(m_requests) :
        /\ m_requests[i].isSecretsCryptoRequest
        /\ m_requests[i].status = RequestPending
        /\ m_requests[i].type \in {"SetCollectionSecretRequest", "GetCollectionSecretRequest",
                                   "DeleteCollectionSecretRequest"}
        /\ m_requests[i].requestId \in SeqRange(pass'.dispatched)}

\* the replies of the pass of the step to the request of an id
RepliesTo(id) == {k \in 1..Len(pass'.replies) : pass'.replies[k].requestId = id}

\* C34: requests of the crypto helpers never park - the pass that dispatches
\* a SetCollectionSecret, GetCollectionSecret or DeleteCollectionSecret request
\* of a crypto helper begins no authentication for it and adds no entry for
\* it to m_pendingRequests; the request is completed in that pass, by one
\* call of asynchronousCryptoRequestCompleted and by no reply on a connection.
C34_CryptoRequestsNeverPark ==
    [][pass'.handled =>
          \A i \in HelperRequestsDispatched :
              LET id == m_requests[i].requestId
              IN  /\ id \in authFlows' => id \in authFlows
                  /\ Len(pass'.dispatched) = 1
                        => \A k \in 1..Len(calls') : calls'[k].op # "beginAuthentication"
                  /\ id \in DOMAIN m_pendingRequests'
                        => /\ id \in DOMAIN m_pendingRequests
                           /\ m_pendingRequests'[id] = m_pendingRequests[id]
                  /\ Cardinality(RepliesTo(id)) = 1
                  /\ \A k \in RepliesTo(id) :
                         /\ pass'.replies[k].channel = "asynchronousCryptoRequestCompleted"
                         /\ pass'.replies[k].cryptoRequestId = m_requests[i].cryptoRequestId
                  /\ id \notin SeqRange(Ids(m_requests'))]_vars

\* the pass has dispatched a request of a crypto helper for a secret of the
\* locked custom-lock collection and has completed it with
\* OperationRequiresUserInteraction
C34_Witness ==
    /\ pass.handled
    /\ CollectionRows(ProcessorState, "c1") # {}
    /\ "c1" \notin DOMAIN m_collectionAuthenticationKeys
    /\ \E k \in 1..Len(pass.replies) :
           /\ pass.replies[k].channel = "asynchronousCryptoRequestCompleted"
           /\ pass.replies[k].code = "OperationRequiresUserInteraction"


(***************************************************************************)
(* Standalone secrets with a custom lock (checked under UpsertSpec, where  *)
(* every standalone secret is written by SetStandaloneCustomLockSecret on  *)
(* the one storage plugin)                                                 *)
(***************************************************************************)
\* the rows of the standalone secrets
StandaloneSecretRows(table) == {row \in table : row.collection = Standalone}

\* the step is a request of an application for a standalone secret that has a
\* row owned by the application
OwnerRequest(op) ==
    /\ last'.op = op
    /\ ~last'.resumed
    /\ \E row \in StandaloneSecretRows(Secrets) :
           /\ row.hashed = generateHashedSecretName(Standalone, last'.secretName)
           /\ row.app = last'.app

\* C35: standalone custom-lock upsert - a standalone secret written by
\* SetStandaloneCustomLockSecret is recorded as custom-lock (it does not use
\* the device lock key) with the authentication plugin given, so a second
\* SetStandaloneCustomLockSecret of its owner with the same storage plugin is
\* not refused with OperationNotSupportedError, and a GetStandaloneSecret of
\* its owner without a cached key is not refused with CollectionIsLockedError
\* (it begins the authentication).
C35_StandaloneCustomLockUpsert ==
    [][/\ \A row \in StandaloneSecretRows(Secrets') :
              /\ row.dev = 0
              /\ row.auth \in UpsertInputs.auths
       /\ OwnerRequest("SetStandaloneCustomLockSecret")
              => last'.code # "OperationNotSupportedError"
       /\ (/\ OwnerRequest("GetStandaloneSecret")
           /\ generateHashedSecretName(Standalone, last'.secretName)
                  \notin DOMAIN m_standaloneSecretAuthenticationKeys)
              => last'.code = "Pending"]_vars


(***************************************************************************)
(* Deletion of a secret of an unlocked collection                          *)
(***************************************************************************)
\* the step is a DeleteCollectionSecret, met by no fault, of the owner of an
\* unlocked collection for a secret that the table and the plugin hold
OwnerDeletesInUnlockedCollection ==
    /\ last'.op = "DeleteCollectionSecret"
    /\ ~last'.resumed
    /\ last'.fault = "none"
    /\ CollectionUnlocked(last'.collection)
    /\ LET row == CollectionRow(ProcessorState, last'.collection)
       IN  row.app = last'.app /\ row.acm = OwnerOnlyMode
    /\ SecretRows(ProcessorState, last'.collection,
                  generateHashedSecretName(last'.collection, last'.secretName)) # {}
    /\ <<last'.collection, generateHashedSecretName(last'.collection, last'.secretName)>>
           \in PluginPayloads

\* C36: delete in an unlocked collection - DeleteCollectionSecret of the
\* owner on a collection that is unlocked (key cached, or the encrypted
\* storage plugin reports it unlocked) succeeds for device-lock and
\* custom-lock collections alike: no authentication is begun, the secret is
\* removed from the plugin and its row from Secrets, and the result is not
\* IncorrectAuthenticationKeyError.
C36_DeleteInUnlockedCollection ==
    [][OwnerDeletesInUnlockedCollection =>
          /\ last'.code = "Succeeded"
          /\ \A k \in 1..Len(calls') : calls'[k].op # "beginAuthentication"
          /\ LastSecretRows(Secrets') = {}
          /\ <<last'.collection,
                generateHashedSecretName(last'.collection, last'.secretName)>>
                 \notin PluginPayloads']_vars


(***************************************************************************)
(* Names of the loaded plugins (checked under LoadSpec)                    *)
(***************************************************************************)
\* the names registered in more than one of the four tables
NamesRegisteredTwice ==
    (m_storagePlugins \cap m_encryptionPlugins)
    \cup (m_storagePlugins \cap m_encryptedStoragePlugins)
    \cup (m_storagePlugins \cap m_authenticationPlugins)
    \cup (m_encryptionPlugins \cap m_encryptedStoragePlugins)
    \cup (m_encryptionPlugins \cap m_authenticationPlugins)
    \cup (m_encryptedStoragePlugins \cap m_authenticationPlugins)

NestedCompletions == RequestsFinishedWithin(ProcessorState, [calls |-> calls'])

\* C38: re-entrant completion - when the authentication plugin delivers
\* authenticationCompleted for a request while beginAuthentication for it is
\* still running (before the handler has parked the request), the request is
\* still resumed through its continuation with its own arguments (it is not
\* finished as an unknown pending request), it gets exactly one reply, and
\* after the reply m_pendingRequests holds no record for it.
C38_ReentrantCompletion ==
    [][/\ \A k \in 1..Len(NestedCompletions) : NestedCompletions[k].code # "UnknownError"
       /\ SeqRange(RepliedIds(pass')) = TrackedIds(m_requests) \ TrackedIds(m_requests')
       /\ \A i, j \in 1..Len(pass'.replies) :
              i # j => pass'.replies[i].requestId # pass'.replies[j].requestId
       /\ SeqRange(RepliedIds(pass')) \cap DOMAIN m_pendingRequests' = {}]_vars


(***************************************************************************)
(* Parked secret requests whose collection is gone at the resumption       *)
(***************************************************************************)
\* the attributes of the collection that the handler of a secret request
\* captured in the parameters it parked (DeleteCollectionSecret captures
\* none)
CapturedAttributes(op, parameters) ==
    IF op = "SetCollectionSecret"
    THEN [dev |-> parameters[6], app |-> parameters[7], sto |-> parameters[8],
          enc |-> parameters[9], auth |-> parameters[10], sem |-> parameters[11],
          acm |-> parameters[13]]
    ELSE IF op = "GetCollectionSecret"
    THEN [sto |-> parameters[5], enc |-> parameters[6], sem |-> parameters[7]]
    ELSE << >>

\* the row has the attributes captured
HasAttributes(row, attributes) ==
    \A field \in DOMAIN attributes : row[field] = attributes[field]

\* the step resumes a parked SetCollectionSecret, GetCollectionSecret or
\* DeleteCollectionSecret after a successful authentication, and the
\* collection has been deleted since the request was parked: the Collections
\* table holds no row of the name, or a row with other attributes than the
\* ones captured
ResumesOnDeletedCollection ==
    /\ authFlows' # authFlows
    /\ last'.resumed
    /\ last'.authentication = "Succeeded"
    /\ last'.op \in {"SetCollectionSecret", "GetCollectionSecret", "DeleteCollectionSecret"}
    /\ \/ CollectionRows(ProcessorState, last'.collection) = {}
       \/ ~HasAttributes(CollectionRow(ProcessorState, last'.collection),
                         CapturedAttributes(last'.op, last'.parked))

\* the calls of the operation that read or write a secret in a storage or
\* encrypted storage plugin
SecretCallsOfStoragePlugins ==
    {k \in 1..Len(calls) : calls[k].op \in {"setSecret", "getSecret", "removeSecret"}}

\* C39: re-validation on resume - when the collection of a parked
\* SetCollectionSecret, GetCollectionSecret or DeleteCollectionSecret is
\* deleted, or deleted and created again with other attributes, before the
\* authentication completes, the resumed continuation fails, and it neither
\* inserts a Secrets row, nor caches a key, nor arms a relock timer, nor
\* calls the storage plugin for the secret.
C39_RevalidationOnResume ==
    [][ResumesOnDeletedCollection
       => /\ last'.code # "Succeeded"
          /\ Secrets' \subseteq Secrets
          /\ DOMAIN m_collectionAuthenticationKeys' \subseteq DOMAIN m_collectionAuthenticationKeys
          /\ m_collectionLockTimers' \subseteq m_collectionLockTimers
          /\ SecretCallsOfStoragePlugins' = {}]_vars


(***************************************************************************)
(* Requests finished more than once (checked under RepeatSpec)             *)
(***************************************************************************)
\* the positions of the requests that requestFinished has moved to Finished
FinishedRequests == {i \in 1..Len(m_requests) : m_requests[i].status = RequestFinished}

\* the results that requestFinished is called with
FinishedResults == {<<"Succeeded", Empty>>, <<"UnknownError", Empty>>}

\* C40: first completion wins - once requestFinished has moved a request to
\* Finished, a later requestFinished or authenticationCompleted for the same
\* request id that comes before the reply is sent changes neither the stored
\* status nor the stored outputs; and requestFinished for an id that is not
\* tracked leaves the queue unchanged.
C40_FirstCompletionWins ==
    [][/\ \A i \in FinishedRequests : \A j \in 1..Len(m_requests') :
              m_requests'[j].requestId = m_requests[i].requestId
              => /\ m_requests'[j].status = RequestFinished
                 /\ m_requests'[j].outParams = m_requests[i].outParams
       /\ \A id \in (0..MaxId) \ TrackedIds(m_requests), outParams \in FinishedResults :
              requestFinished(m_requests, queuedHandleRequests, id, outParams)
                  = [requests |-> m_requests, queued |-> queuedHandleRequests]]_vars

====
